---- MODULE Spec2Model ----
(***************************************************************************)
(* Verification model of the RAG service: the FAISS vector-index backend   *)
(* (documents/search_backends/faiss_backend.py) shared through one index   *)
(* file by several backend instances, and the chat orchestrator            *)
(* (chat/services/rag_chat.py).                                            *)
(***************************************************************************)
EXTENDS Integers, Sequences, FiniteSets, TLC

\* ------------------------------------------------------------------ bounds
MaxChunkId == 2
MaxClock == 1
\* the search specification: every index of up to MaxSmallIndex vectors, and
\* one index of BigIndex vectors
MaxSmallIndex == 6
BigIndex == 51
\* the document service: the number of calls of upload, delete and reindex
MaxCalls == 3
\* reindex-all: a store of more documents than the failure list of meta holds
ManyDocuments == 52

\* ------------------------------------------------------- program constants
batch_size == 256
\* the length of the vectors the embedding service returns, and the
\* dimensions an instance may be constructed with: that length (the probe),
\* or a dimension argument that differs from it
Dim == 2
Dimensions == {Dim, Dim + 1}

\* ------------------------------------------------------------ participants
\* Backend "A" is the module-level instance of chat/services/__init__.py, used
\* by request threads a1 and a2; backend "B" is an instance obtained from
\* _get_faiss_backend() (or held by another process), used by thread b1.
Backends == {"A", "B"}
Threads == {"a1", "a2", "b1"}
BackendOf(t) == IF t = "b1" THEN "B" ELSE "A"
ThreadsOf(b) == {t \in Threads : BackendOf(t) = b}
\* Both instances can live in one process: the chat singleton and the
\* instance DocumentService creates for each call.
ProcessOf(b) == "web"

ChunkIds == 1..MaxChunkId
NoThread == "none"
NoMtime == -1

\* ------------------------------------------------------ ChunkStore catalogue
\* Chunk rows are never updated in place; the content and the owning
\* document's department of a row are fixed when it is created.
Contents == {"vpn", "leave"}
ChunkContent(id) == IF id % 2 = 1 THEN "vpn" ELSE "leave"
ChunkDeptCode(id) == IF id % 2 = 1 THEN "it" ELSE "hr"
ChunkDeptId(id) == IF id % 2 = 1 THEN 1 ELSE 2

\* ------------------------------------------------------------- embeddings
\* Vectors are pairs of integers.  A normalised vector is kept scaled by 5,
\* so an inner product of two normalised vectors is scaled by 25.
embed_text(c) == IF c = "vpn" THEN <<6, 8>> ELSE <<0, 2>>
ISqrt(n) == CHOOSE r \in 0..n : r * r <= n /\ (r + 1) * (r + 1) > n
normalize_L2(v) ==
    LET n == ISqrt(v[1] * v[1] + v[2] * v[2])
    IN  IF n = 0 THEN v ELSE <<(5 * v[1]) \div n, (5 * v[2]) \div n>>
InnerProduct(u, v) == u[1] * v[1] + u[2] * v[2]

\* ------------------------------------------------------------ index values
\* An index is its dimension d and its entries <<id, vector>> in insertion
\* order.  d = 0 stands for "no data" (an unwritten block, an unborn backend).
NoIndex == [d |-> 0, ents |-> <<>>]
create_empty_index(dim) == [d |-> dim, ents |-> <<>>]
ntotal(idx) == Len(idx.ents)
IndexIds(idx) == {idx.ents[i][1] : i \in 1..Len(idx.ents)}
remove_ids(idx, S) == [idx EXCEPT !.ents = SelectSeq(@, LAMBDA e : e[1] \notin S)]
add_with_ids(idx, es) == [idx EXCEPT !.ents = @ \o es]

\* ids in ascending order, as a sequence
RECURSIVE SortedSeq(_)
SortedSeq(S) ==
    IF S = {} THEN <<>>
    ELSE LET m == CHOOSE x \in S : \A y \in S : x <= y
         IN  <<m>> \o SortedSeq(S \ {m})

\* the rows of a batch: each resolved chunk with its normalised embedding
EmbedBatch(idseq) ==
    [i \in 1..Len(idseq) |-> <<idseq[i], normalize_L2(embed_text(ChunkContent(idseq[i])))>>]

\* --------------------------------------------------------------- the files
\* A file is written in two blocks; it is a complete index when both blocks
\* hold the same index.  mtime is the time of the last write to the inode.
NoFile == [ex |-> FALSE, b1 |-> NoIndex, b2 |-> NoIndex, mtime |-> NoMtime]
Complete(f) == f.ex /\ f.b1.d # 0 /\ f.b1 = f.b2
FileOf(idx, m) == [ex |-> TRUE, b1 |-> idx, b2 |-> idx, mtime |-> m]

VARIABLES
    clock,        \* the file system's clock (mtime resolution ticks)
    chunks,       \* ChunkStore: the ids of the existing Chunk rows
    nextId,       \* ChunkStore: the next auto-increment id
    fsFinal,      \* the file at index_path
    fsTmp,        \* the file at index_path + ".tmp"
    live,         \* live[b]: the instance is constructed
    dimension,    \* self.dimension
    index,        \* self.index
    indexMtime,   \* self._index_mtime
    lock,         \* self._lock: the thread holding it
    pc,           \* each thread's position
    op,           \* each thread's running operation
    ids,          \* chunk_ids argument
    batch,        \* the rows (id, vector) to add
    newIndex,     \* new_index of rebuild_index / the index being saved
    offset,       \* offset of rebuild_index
    cur,          \* current_mtime of _maybe_reload_index
    fdAt,         \* where the inode of the open tmp file is now
    query,        \* the arguments of search
    result,       \* the value search returns
    search_k,     \* search_k of search
    watch,        \* history: what the running call of a thread has witnessed
    committed,    \* history: the instance has renamed a file onto the index path
    justIndexed,  \* history: the ids the thread's preceding index_chunks indexed
    seen,         \* history: the rebuilds and searches since the last other change
    cpc,          \* RAGChatService.chat: the position of the running call
    route,        \* route: what router.route returned
    hits,         \* what search_backend.search returns for each filter
    result_kind,  \* the type of the results search_backend.search returns
    scopes,       \* scopes of _search_with_fallback still to be tried
    calls,        \* the calls made to embed_text, search and complete, in order
    search_results,  \* search_results
    retrieval_meta,  \* retrieval_meta
    answer,       \* the text chat returns
    reason,       \* meta["reason"]
    dpc,          \* document service: the position of the running call
    dop,          \* document service: the running operation
    ncalls,       \* document service: the number of the running call
    documents,    \* the ids of the Document rows
    doc_chunks,   \* the documents that have Chunk rows
    blobs,        \* the stored files, by the id of their document
    indexed_docs, \* the documents whose chunks have vectors in the index file
    audit,        \* the AuditLog rows, in order of creation
    document,     \* document of the running call (0 for None)
    file_path,    \* file_path of upload (0 for None)
    todo,         \* reindex: the documents the loop has not reached
    failed,       \* reindex: failed
    err,          \* the exception the running call caught first
    raised,       \* the exception that leaves the call
    comp_failed,  \* history: the compensating deletes of upload that failed
    before_call,  \* history: the rows, blobs and vectors when the running call began
    total_documents, \* reindex: total
    success,      \* reindex: success
    failures,     \* reindex: failures, the ids of the documents that failed
    meta,         \* reindex: the meta returned and written to the audit row
    rebuild_calls, \* history: the calls of rebuild_index the running call made
    rpc,          \* RoutingService.route: the position of the running call
    dept_codes,   \* route: dept_codes
    output_parsed, \* route: resp.output_parsed as the parse returned it
    routing_result, \* route: the RoutingResult the call works on and returns
    route_error,  \* history: the exception route caught
    chat_sessions, \* the ChatSession rows; a row's id is its position
    chat_messages, \* the ChatMessage rows; a row's id is its position
    session_store, \* request.session and the logged-in user of each browser
    now,          \* timezone.now()
    rq,           \* each request handler's position and local variables
    chunk_rows,   \* the Chunk rows, in order of creation
    num_page,     \* Document.num_page of each Document row
    ingestion,    \* the last call of ingest_document: its argument and outcome
    prompt        \* the last call of _build_prompt: its arguments and the text returned


fsVars == <<fsFinal, fsTmp>>
storeVars == <<chunks, nextId>>
backendVars == <<live, index, indexMtime, lock>>
localVars == <<ids, batch, newIndex, offset, cur, fdAt, query, result>>
histVars == <<watch, committed, justIndexed>>
chatVars == <<cpc, route, hits, result_kind, scopes, calls, search_results, retrieval_meta, answer, reason>>
indexVars == <<clock, storeVars, fsVars, backendVars, dimension, pc, op, localVars,
               search_k, histVars, seen>>
\* the variables of the components beside the index backend
docVars == <<dpc, dop, ncalls, documents, doc_chunks, blobs, indexed_docs, audit, document,
             file_path, todo, failed, err, raised, comp_failed, before_call, total_documents,
             success, failures, meta, rebuild_calls>>
routeVars == <<rpc, dept_codes, output_parsed, routing_result, route_error>>
sessVars == <<chat_sessions, chat_messages, session_store, now, rq>>
ingestVars == <<chunk_rows, num_page, ingestion>>
promptVars == <<prompt>>
otherVars == <<routeVars, sessVars, ingestVars, promptVars>>
farVars == <<chatVars, docVars, otherVars>>
vars == <<indexVars, farVars>>

NoQuery == [q |-> <<0, 0>>, top_k |-> 0, code |-> "none", dept |-> 0]

Min(a, b) == IF a <= b THEN a ELSE b

\* ----------------------------------------------------------------- search
\* self.index.search(xq, k): entries by inner product, best first; equal
\* scores keep insertion order.  Each hit is <<id, score>>.
RECURSIVE Ranked(_, _)
Ranked(es, xq) ==
    IF es = <<>> THEN <<>>
    ELSE LET n == Len(es)
             best == CHOOSE i \in 1..n : \A j \in 1..n :
                        \/ InnerProduct(es[i][2], xq) > InnerProduct(es[j][2], xq)
                        \/ InnerProduct(es[i][2], xq) = InnerProduct(es[j][2], xq) /\ i <= j
         IN  <<<<es[best][1], InnerProduct(es[best][2], xq)>>>>
                \o Ranked(SubSeq(es, 1, best - 1) \o SubSeq(es, best + 1, n), xq)
index_search(idx, xq, k) == SubSeq(Ranked(idx.ents, xq), 1, Min(k, ntotal(idx)))

\* the lookup without the ChunkStore: an id the index holds passes though
\* its chunk is gone
PassesFilter_stale(id, store, qy) ==
    /\ qy.dept = 0 \/ ChunkDeptId(id) = qy.dept
    /\ qy.code = "none" \/ ChunkDeptCode(id) = qy.code

\* the ChunkStore lookup of search with its department filters
PassesFilter(id, store, qy) ==
    /\ id \in store
    /\ qy.dept = 0 \/ ChunkDeptId(id) = qy.dept
    /\ qy.code = "none" \/ ChunkDeptCode(id) = qy.code

RECURSIVE search_loop(_, _, _, _, _)
search_loop(idx, qy, store, k, max_k) ==
    LET raw == index_search(idx, normalize_L2(qy.q), k)
        passed == SelectSeq(raw, LAMBDA r : PassesFilter(r[1], store, qy))
    IN  IF raw = <<>> THEN <<>>
        ELSE IF Len(passed) >= qy.top_k THEN SubSeq(passed, 1, qy.top_k)
        ELSE IF k >= max_k THEN passed
        ELSE search_loop(idx, qy, store, Min(max_k, k * 2), max_k)

search(idx, qy, store) ==
    IF ntotal(idx) = 0 THEN <<>>
    ELSE LET max_k == Min(ntotal(idx), qy.top_k * 50)
             k == Min(max_k, qy.top_k * 5)
         IN  search_loop(idx, qy, store, k, max_k)

\* the arguments search is called with
Queries ==
    [q : {embed_text(c) : c \in Contents}, top_k : {1}, code : {"none"}, dept : {0}]
    \cup [q : {embed_text("vpn")}, top_k : {2}, code : {"hr"}, dept : {0}]

\* --------------------------------------------------------- file primitives
get_file_mtime_or_none(f) == IF f.ex THEN f.mtime ELSE NoMtime

\* reload_needed with the comparison turned around: never reloads a newer file
reload_needed_older(current_mtime, index_mtime) ==
    /\ current_mtime # NoMtime
    /\ ~(index_mtime # NoMtime /\ current_mtime >= index_mtime)

\* _maybe_reload_index: the file is newer than what this instance last saw
reload_needed(current_mtime, index_mtime) ==
    /\ current_mtime # NoMtime
    /\ ~(index_mtime # NoMtime /\ current_mtime <= index_mtime)

\* faiss.read_index: the index of a complete file.  A truncated file does not
\* parse (NoIndex stands for the exception); a file mixed from two writers
\* may fail to parse or parse as what its header block says.
read_index(f) ==
    IF Complete(f) THEN {f.b1}
    ELSE {NoIndex} \cup (IF f.ex /\ f.b1.d # 0 /\ f.b2.d # 0 THEN {f.b1} ELSE {})

\* the index _save_index serialises: its argument, or self.index
SaveSource(t) ==
    IF op[t] \in {"rebuild", "ctor"} THEN newIndex[t] ELSE index[BackendOf(t)]

\* where control goes after _maybe_reload_index returns
AfterReload(t) ==
    CASE op[t] = "index" -> "ic_mutate"
      [] op[t] = "delete" -> "dc_mutate"
      [] OTHER -> "se_query"

\* ------------------------------------------------------------- chat data
\* department codes a route may name, and the filters search is called with
Departments == {"hr", "it"}
Filters == Departments \cup {"company"}

\* scores in hundredths; NoScore stands for None
SCORE_THRESHOLD == 55
NoScore == -1

NoRoute == [is_business |-> FALSE, needs_clarification |-> FALSE,
            primary_department |-> "", secondary_departments |-> <<>>]
NoHits == [f \in Filters |-> <<>>]
NoMeta == [scope_used |-> "", fallback_triggered |-> FALSE,
           top_score |-> NoScore, hit_count |-> 0]

\* what router.route may return
Routes ==
    [is_business : BOOLEAN, needs_clarification : BOOLEAN,
     primary_department : Departments \cup {"unknown"},
     secondary_departments :
        {<<>>} \cup {<<d>> : d \in Departments \cup {"unknown"}}
               \cup {<<d, e>> : d, e \in Departments \cup {"unknown"}}]

\* what the search backend may return for a filter: the scores of its hits,
\* best first
HitLists == {<<>>, <<54>>, <<55>>, <<90, 54>>}

\* The results of a search backend: FaissSearchBackend builds each one with
\* SearchResult(chunk=..., score=...), a TypedDict, so a plain dict; another
\* backend may return objects that carry score and chunk as attributes.
ResultKinds == {"typed_dict", "object"}

\* results[0].score can be evaluated: the list is empty (the conditional
\* takes None) or the results carry attributes; on a dict the attribute
\* access raises AttributeError
score_readable(results, kind) == results = <<>> \/ kind = "object"

\* results[0].score if results else None
TopScore(results) == IF results = <<>> THEN NoScore ELSE results[1]

\* the scopes list _search_with_fallback builds
RECURSIVE AppendScopes(_, _)
AppendScopes(sc, ds) ==
    IF ds = <<>> THEN sc
    ELSE LET d == Head(ds)
         IN  IF d # "" /\ d # "unknown" /\ ~(\E i \in 1..Len(sc) : sc[i] = d)
             THEN AppendScopes(Append(sc, d), Tail(ds))
             ELSE AppendScopes(sc, Tail(ds))
fallback_scopes(r) ==
    AppendScopes(IF r.primary_department # "" /\ r.primary_department # "unknown"
                 THEN <<r.primary_department>> ELSE <<>>,
                 r.secondary_departments)

\* top_score is not None and top_score >= SCORE_THRESHOLD
scope_passes(top_score) == top_score # NoScore /\ top_score >= SCORE_THRESHOLD

\* chat without the non-business return
not_business_ignored(r) == FALSE

\* if not route.is_business
not_business(r) == ~r.is_business

\* chat without the search_weak return
search_weak_never(m) == FALSE

\* search_weak of chat
search_weak(m) ==
    m.top_score = NoScore \/ m.hit_count = 0 \/ m.top_score < SCORE_THRESHOLD

\* ------------------------------------------------------------------- Init
InitStores == {{}, {1}}

\* no call of the document service has been made
InitNoCall ==
    /\ dpc = "idle"
    /\ dop = "none"
    /\ ncalls = 0
    /\ audit = <<>>
    /\ document = 0
    /\ file_path = 0
    /\ todo = {}
    /\ failed = 0
    /\ err = "none"
    /\ raised = "none"
    /\ comp_failed = {}
    /\ before_call = [documents |-> {}, doc_chunks |-> {}, blobs |-> {}, indexed_docs |-> {}]
    /\ total_documents = 0
    /\ success = 0
    /\ failures = <<>>
    /\ meta = [total_documents |-> 0, success_documents |-> 0, failed_documents |-> 0,
               failures |-> <<>>]
    /\ rebuild_calls = 0

\* no document has been uploaded
InitNoDocuments ==
    /\ documents = {}
    /\ doc_chunks = {}
    /\ blobs = {}
    /\ indexed_docs = {}

\* every instance is constructed on the index file
InitBackends ==
    /\ live = [b \in Backends |-> TRUE]
    /\ dimension = [b \in Backends |-> Dim]
    /\ index = [b \in Backends |-> fsFinal.b1]
    /\ indexMtime = [b \in Backends |-> 0]

\* a RoutingResult that is not there
NoRoutingResult ==
    [is_business |-> FALSE, business_confidence |-> 0, primary_department |-> "",
     department_confidence |-> 0, secondary_departments |-> <<>>,
     needs_clarification |-> FALSE, clarifying_question |-> <<>>]

\* no call of route has been made
InitNoRoute ==
    /\ rpc = "idle"
    /\ dept_codes = <<>>
    /\ output_parsed = NoRoutingResult
    /\ routing_result = NoRoutingResult
    /\ route_error = "none"

\* no thread is in a call of a backend, no chat turn is running
\* ------------------------------------------------- sessions and requests
MaxSessions == 3
MaxMessages == 6

Holders == {"h1", "h2"}
Users == {"u1"}
\* request.user of a request without a login (is_authenticated is False);
\* a ChatSession row with user NULL carries it
Anonymous == "anonymous"
Requests == {"r1", "r2"}
Views == {"index_get", "index_post", "reset"}
\* None and NULL, for ids, times and departments
NULL == 0

\* a handler that kept the meta of an earlier answer
KeptMeta == [routing |-> "hr", retrieval |-> "retrieval", citations |-> <<"doc">>]
\* meta = {} of the except clause (views.py line 40): no routing, no
\* retrieval, no citations
EmptyMeta == [routing |-> "none", retrieval |-> "none", citations |-> <<>>]

NoRequest ==
    [pc |-> "idle", view |-> "none", holder |-> "none", user |-> Anonymous,
     session_id |-> NULL, modified |-> FALSE, session |-> NULL,
     answer_department |-> "none", user_text |-> <<>>, user_msg |-> NULL,
     answer |-> "none", meta |-> EmptyMeta]

InitNoRequest ==
    /\ chat_sessions = <<>>
    /\ chat_messages = <<>>
    /\ session_store = [h \in Holders |-> [user |-> Anonymous, chat_session_id |-> NULL]]
    /\ now = 1
    /\ rq = [r \in Requests |-> NoRequest]

\* the extractor's metadata of a call that got none
NoExtractMeta == [type |-> "none", warnings |-> {}]

NoIngestion ==
    [document |-> NULL, caller |-> "none", scan_pdf |-> FALSE,
     raised |-> "none", extract_meta |-> NoExtractMeta, chunk_count |-> 0]

\* no Chunk row, no Document row, no call of ingest_document yet
InitNoRows ==
    /\ chunk_rows = <<>>
    /\ num_page = [d \in {} |-> NULL]
    /\ ingestion = NoIngestion

\* no call of _build_prompt yet
NoPrompt ==
    [system_prompt |-> <<>>, history |-> <<>>, context |-> <<>>, user_message |-> <<>>,
     text |-> <<>>]
InitNoPrompt == prompt = NoPrompt

InitThreads ==
    /\ InitNoRoute
    /\ InitNoRequest
    /\ InitNoRows
    /\ InitNoPrompt
    /\ fsTmp = NoFile
    /\ lock = [b \in Backends |-> NoThread]
    /\ pc = [t \in Threads |-> "idle"]
    /\ op = [t \in Threads |-> "none"]
    /\ ids = [t \in Threads |-> {}]
    /\ batch = [t \in Threads |-> <<>>]
    /\ newIndex = [t \in Threads |-> NoIndex]
    /\ offset = [t \in Threads |-> 0]
    /\ cur = [t \in Threads |-> NoMtime]
    /\ fdAt = [t \in Threads |-> "none"]
    /\ query = [t \in Threads |-> NoQuery]
    /\ result = [t \in Threads |-> <<>>]
    /\ search_k = [t \in Threads |-> 0]
    /\ watch = [t \in Threads |-> "none"]
    /\ committed = [b \in Backends |-> FALSE]
    /\ justIndexed = [t \in Threads |-> {}]
    /\ cpc = "idle"
    /\ route = NoRoute
    /\ hits = NoHits
    /\ result_kind = "typed_dict"
    /\ scopes = <<>>
    /\ calls = <<>>
    /\ search_results = <<>>
    /\ retrieval_meta = NoMeta
    /\ answer = ""
    /\ reason = ""

\* no call is running
InitIdle ==
    /\ InitThreads
    /\ seen = [on |-> FALSE, log |-> <<>>]
    /\ InitNoCall
    /\ InitNoDocuments

\* every instance is constructed on the index file and idle, no chat turn is
\* running
InitRest ==
    /\ InitBackends
    /\ InitIdle

Init ==
    /\ clock = 0
    /\ chunks \in InitStores
    /\ nextId = Cardinality(chunks) + 1
    /\ fsFinal = FileOf(add_with_ids(create_empty_index(Dim), EmbedBatch(SortedSeq(chunks))), 0)
    /\ InitRest

\* ---------------------------------------------------------------- helpers
\* a call returns (or raises): the thread's frame is dropped
Return(t) ==
    /\ pc' = [pc EXCEPT ![t] = "idle"]
    /\ op' = [op EXCEPT ![t] = "none"]
    /\ ids' = [ids EXCEPT ![t] = {}]
    /\ batch' = [batch EXCEPT ![t] = <<>>]
    /\ newIndex' = [newIndex EXCEPT ![t] = NoIndex]
    /\ offset' = [offset EXCEPT ![t] = 0]
    /\ cur' = [cur EXCEPT ![t] = NoMtime]
    /\ query' = [query EXCEPT ![t] = NoQuery]
    /\ result' = [result EXCEPT ![t] = <<>>]

Goto(t, label) == pc' = [pc EXCEPT ![t] = label]

\* a public method may start: the instance exists and the thread is free
CanStart(t) ==
    /\ pc[t] = "idle"
    /\ live[BackendOf(t)]

\* leaving a "with self._lock" block
Released(t) == [lock EXCEPT ![BackendOf(t)] = NoThread]

\* ---------------------------------------------------------------- history
\* History variables record what happened; no action reads them.
\* Thread u changed the file at the index path, by a rename (a commit) or
\* through a descriptor that now points at it: the running searches of the
\* other threads have overlapped a write.
Disturbed(u, by_rename) ==
    /\ watch' = [t \in Threads |->
                   IF t # u /\ watch[t] \in {"clean", "fresh"} THEN "tainted" ELSE watch[t]]
    /\ committed' = [b \in Backends |-> committed[b] \/ (by_rename /\ b = BackendOf(u))]

\* the rebuilds that returned and the searches that returned since the
\* ChunkStore or another call last changed an index, the latest MaxSeen of
\* them; recorded only where seen.on is set
MaxSeen == 4
Forgotten == [seen EXCEPT !.log = <<>>]
Recorded(e) ==
    IF ~seen.on THEN seen
    ELSE LET l == Append(seen.log, e)
         IN  [seen EXCEPT !.log = IF Len(l) > MaxSeen THEN Tail(l) ELSE l]

\* a rebuild_index call has returned: the index file as it left it
RebuildEvent ==
    [kind |-> "rebuild", mtime |-> fsFinal.mtime, file |-> fsFinal.b1, by |-> "",
     q |-> NoQuery, found |-> {}]

\* a search has returned: the chunks it returned
SearchEvent(t) ==
    [kind |-> "search", mtime |-> NoMtime, file |-> NoIndex, by |-> t, q |-> query[t],
     found |-> {result[t][i][1] : i \in DOMAIN result[t]}]

\* a search begins: is a complete index file waiting whose mtime has advanced
\* past what the instance last observed?
WatchAtStart(t) ==
    IF /\ Complete(fsFinal)
       /\ fsFinal.b1.d = dimension[BackendOf(t)]
       /\ indexMtime[BackendOf(t)] # NoMtime
       /\ fsFinal.mtime > indexMtime[BackendOf(t)]
    THEN "fresh" ELSE "clean"

\* ------------------------------------------------------------ environment
\* the file system's clock moves on
Tick ==
    /\ clock < MaxClock
    /\ clock' = clock + 1
    /\ UNCHANGED <<farVars, seen, dimension, search_k, storeVars, fsVars, backendVars, pc, op, localVars, histVars>>

\* ingestion inserts a Chunk row under the next id
CreateChunk ==
    /\ nextId <= MaxChunkId
    /\ chunks' = chunks \cup {nextId}
    /\ nextId' = nextId + 1
    /\ UNCHANGED <<farVars, dimension, search_k, clock, fsVars, backendVars, pc, op, localVars, histVars>>
    /\ seen' = Forgotten

\* deleting a Document cascades to its Chunk rows
DeleteChunk(id) ==
    /\ id \in chunks
    /\ chunks' = chunks \ {id}
    /\ UNCHANGED <<farVars, dimension, search_k, clock, nextId, fsVars, backendVars, pc, op, localVars, histVars>>
    /\ seen' = Forgotten

\* ------------------------------------------------------------ _save_index
\* faiss.write_index opens <path>.tmp for writing: created, or truncated
save_index_open(t) ==
    /\ pc[t] = "sv_open"
    /\ fsTmp' = [ex |-> TRUE, b1 |-> NoIndex, b2 |-> NoIndex, mtime |-> clock]
    /\ fdAt' = [fdAt EXCEPT ![t] = "tmp"]
    /\ Goto(t, "sv_w1")
    /\ UNCHANGED <<farVars, seen, dimension, search_k, clock, storeVars, fsFinal, backendVars, op, ids, batch,
                   newIndex, offset, cur, query, result, histVars>>

\* the inode of the open file after block k is written with index src
WriteTmp(t, k, src) ==
    IF fdAt[t] # "tmp" THEN fsTmp
    ELSE IF k = 1 THEN [fsTmp EXCEPT !.b1 = src, !.mtime = clock]
    ELSE [fsTmp EXCEPT !.b2 = src, !.mtime = clock]
WriteFinal(t, k, src) ==
    IF fdAt[t] # "final" THEN fsFinal
    ELSE IF k = 1 THEN [fsFinal EXCEPT !.b1 = src, !.mtime = clock]
    ELSE [fsFinal EXCEPT !.b2 = src, !.mtime = clock]

\* faiss.write_index writes the first part of the serialised index
save_index_write1(t) ==
    /\ pc[t] = "sv_w1"
    /\ fsTmp' = WriteTmp(t, 1, SaveSource(t))
    /\ fsFinal' = WriteFinal(t, 1, SaveSource(t))
    /\ Goto(t, "sv_w2")
    /\ IF fdAt[t] = "final" THEN Disturbed(t, FALSE) ELSE UNCHANGED <<watch, committed>>
    /\ UNCHANGED <<farVars, seen, dimension, search_k, clock, storeVars, backendVars, op, localVars, justIndexed>>

\* faiss.write_index writes the rest and closes the file
save_index_write2(t) ==
    /\ pc[t] = "sv_w2"
    /\ fsTmp' = WriteTmp(t, 2, SaveSource(t))
    /\ fsFinal' = WriteFinal(t, 2, SaveSource(t))
    /\ fdAt' = [fdAt EXCEPT ![t] = "none"]
    /\ Goto(t, "sv_rename")
    /\ IF fdAt[t] = "final" THEN Disturbed(t, FALSE) ELSE UNCHANGED <<watch, committed>>
    /\ UNCHANGED <<farVars, seen, dimension, search_k, clock, storeVars, backendVars, op, ids, batch, newIndex,
                   offset, cur, query, result, justIndexed>>

\* os.replace(tmp_path, final_path): the tmp inode becomes the index file.
\* Open descriptors follow their inode.
replace_ok(t) ==
    /\ pc[t] = "sv_rename"
    /\ fsTmp.ex
    /\ fsFinal' = fsTmp
    /\ fsTmp' = NoFile
    /\ fdAt' = [u \in Threads |->
                  IF fdAt[u] = "tmp" THEN "final"
                  ELSE IF fdAt[u] = "final" THEN "orphan" ELSE fdAt[u]]
    /\ Goto(t, "sv_stat")
    /\ Disturbed(t, TRUE)
    /\ UNCHANGED <<farVars, seen, dimension, search_k, clock, storeVars, backendVars, op, ids, batch, newIndex,
                   offset, cur, query, result, justIndexed>>

\* os.replace raises FileNotFoundError: another writer renamed the tmp file
\* away.  The exception leaves the with-block and the call.
replace_fails(t) ==
    /\ pc[t] = "sv_rename"
    /\ ~fsTmp.ex
    /\ lock' = IF lock[BackendOf(t)] = t THEN Released(t) ELSE lock
    /\ Return(t)
    /\ UNCHANGED <<farVars, seen, dimension, search_k, clock, storeVars, fsVars, live, index, indexMtime, fdAt, histVars>>

\* faiss.write_index raises (the disk is full, the directory cannot be
\* written): what was written so far stays in the tmp file, and the
\* exception leaves _save_index and the with-block of the caller
save_index_write_fails(t) ==
    /\ pc[t] \in {"sv_open", "sv_w1", "sv_w2"}
    /\ op[t] # "ctor"
    /\ fdAt' = [fdAt EXCEPT ![t] = "none"]
    /\ lock' = Released(t)
    /\ Goto(t, "sv_raised")
    /\ UNCHANGED <<farVars, seen, dimension, search_k, clock, storeVars, fsVars, live, index,
                   indexMtime, op, ids, batch, newIndex, offset, cur, query, result, histVars>>

\* os.replace raises OSError with the tmp file in place: the index file
\* stays as it was
save_index_replace_raises(t) ==
    /\ pc[t] = "sv_rename"
    /\ op[t] # "ctor"
    /\ fsTmp.ex
    /\ lock' = Released(t)
    /\ Goto(t, "sv_raised")
    /\ UNCHANGED <<farVars, seen, dimension, search_k, clock, storeVars, fsVars, live, index,
                   indexMtime, op, localVars, histVars>>

\* the exception of _save_index reaches the caller of index_chunks,
\* delete_chunks or rebuild_index
save_index_raised(t) ==
    /\ pc[t] = "sv_raised"
    /\ Return(t)
    /\ UNCHANGED <<farVars, seen, dimension, search_k, clock, storeVars, fsVars, backendVars, fdAt,
                   histVars>>

\* history: the ids some running delete_chunks call was given
BeingDeleted == UNION {ids[u] : u \in {v \in Threads : op[v] = "delete"}}

\* self._index_mtime = self._get_file_mtime_or_none(), and what follows
\* _save_index in the caller
save_index_stat(t) ==
    /\ pc[t] = "sv_stat"
    /\ indexMtime' = [indexMtime EXCEPT ![BackendOf(t)] = get_file_mtime_or_none(fsFinal)]
    /\ IF op[t] \in {"index", "delete"}
       THEN /\ lock' = Released(t)
            /\ Return(t)
            /\ justIndexed' = [justIndexed EXCEPT ![t] =
                                  IF op[t] = "index" THEN ids[t] \ BeingDeleted ELSE {}]
       ELSE /\ Goto(t, IF op[t] = "rebuild" THEN "rb_swap" ELSE "ct_stat")
            /\ UNCHANGED <<lock, op, ids, batch, newIndex, offset, cur, query, result,
                           justIndexed>>
    /\ UNCHANGED <<farVars, seen, dimension, search_k, clock, storeVars, fsVars, live, index, fdAt, watch, committed>>

\* ---------------------------------------------------- _maybe_reload_index
\* current_mtime = self._get_file_mtime_or_none() and the two early returns
maybe_reload_stat(t) ==
    /\ pc[t] = "rl_stat"
    /\ LET m == get_file_mtime_or_none(fsFinal)
       IN  IF reload_needed(m, indexMtime[BackendOf(t)])
           THEN /\ cur' = [cur EXCEPT ![t] = m]
                /\ Goto(t, "rl_read")
           ELSE /\ Goto(t, AfterReload(t))
                /\ UNCHANGED cur
    /\ UNCHANGED <<farVars, seen, dimension, search_k, clock, storeVars, fsVars, backendVars, op, ids, batch,
                   newIndex, offset, fdAt, query, result, histVars>>

\* a reload that records the new mtime and leaves the old index in place
Reloaded_mtime_only(t, new) ==
    IF new.d = 0 \/ new.d # dimension[BackendOf(t)]
    THEN <<index[BackendOf(t)], indexMtime[BackendOf(t)]>>
    ELSE <<index[BackendOf(t)], cur[t]>>

\* a reload without the dimension check
Reloaded_unchecked(t, new) ==
    IF new.d = 0
    THEN <<index[BackendOf(t)], indexMtime[BackendOf(t)]>>
    ELSE <<new, cur[t]>>

\* the index and the mtime of the instance after read_index gave new
Reloaded(t, new) ==
    IF new.d = 0 \/ new.d # dimension[BackendOf(t)]
    THEN <<index[BackendOf(t)], indexMtime[BackendOf(t)]>>
    ELSE <<new, cur[t]>>

\* new_index = faiss.read_index(path), the dimension check and the swap; on
\* any exception the existing index is kept
maybe_reload_read(t) ==
    /\ pc[t] = "rl_read"
    /\ \E new \in read_index(fsFinal) :
         /\ index' = [index EXCEPT ![BackendOf(t)] = Reloaded(t, new)[1]]
         /\ indexMtime' = [indexMtime EXCEPT ![BackendOf(t)] = Reloaded(t, new)[2]]
    /\ Goto(t, AfterReload(t))
    /\ UNCHANGED <<farVars, seen, dimension, search_k, clock, storeVars, fsVars, live, lock, op, localVars, histVars>>

\* acquiring self._lock
AcquireLock(t, from, to) ==
    /\ pc[t] = from
    /\ lock[BackendOf(t)] = NoThread
    /\ lock' = [lock EXCEPT ![BackendOf(t)] = t]
    /\ Goto(t, to)
    /\ UNCHANGED <<farVars, seen, dimension, search_k, clock, storeVars, fsVars, live, index, indexMtime, op, localVars,
                   histVars>>

\* ----------------------------------------------------------- index_chunks
\* index_chunks without the return of lines 114-115: ids that do not
\* resolve go on to the lock with no rows
index_chunks_start_unresolved(t, S) ==
    /\ CanStart(t)
    /\ justIndexed' = [justIndexed EXCEPT ![t] = {}]
    /\ IF S = {}
       THEN UNCHANGED <<pc, op, ids, batch>>
       ELSE /\ Goto(t, "ic_lock")
            /\ op' = [op EXCEPT ![t] = "index"]
            /\ ids' = [ids EXCEPT ![t] = S \cap chunks]
            /\ batch' = [batch EXCEPT ![t] = EmbedBatch(SortedSeq(S \cap chunks))]
    /\ UNCHANGED <<farVars, seen, dimension, search_k, clock, storeVars, fsVars, backendVars, newIndex, offset, cur,
                   fdAt, query, result, watch, committed>>

\* the part before the lock: resolve the ids in the ChunkStore and embed
index_chunks_start(t, S) ==
    /\ CanStart(t)
    /\ justIndexed' = [justIndexed EXCEPT ![t] = {}]
    /\ IF S \cap chunks = {}
       THEN UNCHANGED <<pc, op, ids, batch>>
       ELSE /\ Goto(t, "ic_lock")
            /\ op' = [op EXCEPT ![t] = "index"]
            /\ ids' = [ids EXCEPT ![t] = S \cap chunks]
            /\ batch' = [batch EXCEPT ![t] = EmbedBatch(SortedSeq(S \cap chunks))]
    /\ UNCHANGED <<farVars, seen, dimension, search_k, clock, storeVars, fsVars, backendVars, newIndex, offset, cur,
                   fdAt, query, result, watch, committed>>

index_chunks_lock(t) == AcquireLock(t, "ic_lock", "rl_stat")

\* add_with_ids without the remove_ids before it
Upserted_added(idx, S, es) == add_with_ids(idx, es)

\* the index after remove_ids(selector) and add_with_ids(vectors, ids_np)
Upserted(idx, S, es) == add_with_ids(remove_ids(idx, S), es)

\* remove_ids, add_with_ids and on to _save_index; add_with_ids raises
\* (assert d == self.d) when the index is not of the vectors' dimension,
\* after the ids are removed
index_chunks_mutate(t) ==
    /\ pc[t] = "ic_mutate"
    /\ IF index[BackendOf(t)].d = Dim
       THEN /\ index' = [index EXCEPT ![BackendOf(t)] = Upserted(@, ids[t], batch[t])]
            /\ Goto(t, "sv_open")
            /\ UNCHANGED <<lock, op, localVars>>
       ELSE /\ index' = [index EXCEPT ![BackendOf(t)] = remove_ids(@, ids[t])]
            /\ lock' = Released(t)
            /\ Return(t)
            /\ UNCHANGED fdAt
    /\ UNCHANGED <<farVars, dimension, search_k, clock, storeVars, fsVars, live, indexMtime,
                   histVars>>
    /\ seen' = Forgotten

\* ---------------------------------------------------------- delete_chunks
delete_chunks_start(t, S) ==
    /\ CanStart(t)
    /\ justIndexed' = [u \in Threads |-> IF u = t THEN {} ELSE justIndexed[u] \ S]
    /\ IF S = {}
       THEN UNCHANGED <<pc, op, ids>>
       ELSE /\ Goto(t, "dc_lock")
            /\ op' = [op EXCEPT ![t] = "delete"]
            /\ ids' = [ids EXCEPT ![t] = S]
    /\ UNCHANGED <<farVars, seen, dimension, search_k, clock, storeVars, fsVars, backendVars, batch, newIndex, offset,
                   cur, fdAt, query, result, watch, committed>>

delete_chunks_lock(t) == AcquireLock(t, "dc_lock", "rl_stat")

delete_chunks_mutate(t) ==
    /\ pc[t] = "dc_mutate"
    /\ index' = [index EXCEPT ![BackendOf(t)] = remove_ids(@, ids[t])]
    /\ Goto(t, "sv_open")
    /\ UNCHANGED <<farVars, dimension, search_k, clock, storeVars, fsVars, live, indexMtime, lock, op, localVars,
                   histVars>>
    /\ seen' = Forgotten

\* ---------------------------------------------------------- rebuild_index
\* rebuild_index without the guard on an empty store
rebuild_aborts_never(total) == FALSE

\* total = Chunk.objects.count(): an empty store aborts the rebuild
rebuild_aborts(total) == total = 0

rebuild_index_start(t) ==
    /\ CanStart(t)
    /\ justIndexed' = [justIndexed EXCEPT ![t] = {}]
    /\ op' = [op EXCEPT ![t] = "rebuild"]
    /\ IF rebuild_aborts(Cardinality(chunks))
       THEN /\ Goto(t, "rb_abort")
            /\ UNCHANGED <<newIndex, offset>>
       ELSE /\ Goto(t, "rb_batch")
            /\ newIndex' = [newIndex EXCEPT ![t] = create_empty_index(dimension[BackendOf(t)])]
            /\ offset' = [offset EXCEPT ![t] = 0]
    /\ UNCHANGED <<farVars, seen, dimension, search_k, clock, storeVars, fsVars, backendVars, ids, batch, cur, fdAt,
                   query, result, watch, committed>>

\* logger.error("...aborted chunk_count=0 (skip overwrite)"); return
rebuild_index_abort(t) ==
    /\ pc[t] = "rb_abort"
    /\ Return(t)
    /\ UNCHANGED <<farVars, dimension, search_k, clock, storeVars, fsVars, backendVars, fdAt, histVars>>
    /\ seen' = Recorded(RebuildEvent)

\* qs[offset : offset + batch_size] over the chunks ordered by id
NextBatch(store, off) ==
    LET all == SortedSeq(store)
    IN  SubSeq(all, off + 1, Min(off + batch_size, Len(all)))

\* the build fills the live index instead of a local one
index_during_build_in_place(live_index, building) == building

\* self.index while new_index is being filled: the build works on a local
\* index and does not touch the live one
index_during_build(live_index, building) == live_index

\* one turn of the build loop: an empty batch ends it
rebuild_index_batch(t) ==
    /\ pc[t] = "rb_batch"
    /\ IF NextBatch(chunks, offset[t]) = <<>>
       THEN /\ Goto(t, "rb_lock")
            /\ UNCHANGED <<newIndex, offset, index>>
       ELSE /\ newIndex' = [newIndex EXCEPT ![t] =
                              add_with_ids(@, EmbedBatch(NextBatch(chunks, offset[t])))]
            /\ offset' = [offset EXCEPT ![t] = @ + batch_size]
            /\ index' = [index EXCEPT ![BackendOf(t)] = index_during_build(@, newIndex'[t])]
            /\ UNCHANGED pc
    /\ UNCHANGED <<farVars, seen, dimension, search_k, clock, storeVars, fsVars, live, indexMtime, lock, op, ids, batch,
                   cur, fdAt, query, result, histVars>>

rebuild_index_lock(t) == AcquireLock(t, "rb_lock", "sv_open")

\* self.index = new_index, and the with-block ends
rebuild_index_swap(t) ==
    /\ pc[t] = "rb_swap"
    /\ index' = [index EXCEPT ![BackendOf(t)] = newIndex[t]]
    /\ lock' = Released(t)
    /\ Return(t)
    /\ UNCHANGED <<farVars, dimension, search_k, clock, storeVars, fsVars, live, indexMtime, fdAt, histVars>>
    /\ seen' = Recorded(RebuildEvent)

\* ----------------------------------------------------------------- search
search_start(t, qy) ==
    /\ CanStart(t)
    /\ Goto(t, "se_lock")
    /\ op' = [op EXCEPT ![t] = "search"]
    /\ query' = [query EXCEPT ![t] = qy]
    /\ watch' = [watch EXCEPT ![t] = WatchAtStart(t)]
    /\ UNCHANGED <<farVars, seen, dimension, search_k, clock, storeVars, fsVars, backendVars, ids, batch, newIndex,
                   offset, cur, fdAt, result, committed, justIndexed>>

search_lock(t) == AcquireLock(t, "se_lock", "rl_stat")

\* the search proper; returning leaves the with-block
search_query(t) ==
    /\ pc[t] = "se_query"
    /\ result' = [result EXCEPT ![t] = search(index[BackendOf(t)], query[t], chunks)]
    /\ lock' = Released(t)
    /\ Goto(t, "se_ret")
    /\ UNCHANGED <<farVars, seen, dimension, search_k, clock, storeVars, fsVars, live, index, indexMtime, op, ids,
                   batch, newIndex, offset, cur, fdAt, query, histVars>>

\* the candidates are never widened past the first search_k
max_k_first(idx, qy) == Min(ntotal(idx), qy.top_k * 5)

\* max_k = min(int(self.index.ntotal), top_k * 50)
max_k(idx, qy) == Min(ntotal(idx), qy.top_k * 50)

\* the results list one turn of the loop builds from the raw top search_k:
\* the hits whose chunk the filtered ChunkStore query returned, in raw order
passed_hits(idx, qy, store, k) ==
    SelectSeq(index_search(idx, normalize_L2(qy.q), k),
              LAMBDA r : PassesFilter(r[1], store, qy))

\* every result that passed is returned
returned_all(results, top_k) == results

\* what a turn of the loop returns: results.append(...) stops at top_k
returned(results, top_k) == SubSeq(results, 1, Min(top_k, Len(results)))

\* search up to the loop: the empty-index return, max_k and search_k
search_begin(t) ==
    /\ pc[t] = "se_query"
    /\ IF ntotal(index[BackendOf(t)]) = 0
       THEN /\ result' = [result EXCEPT ![t] = <<>>]
            /\ search_k' = [search_k EXCEPT ![t] = 0]
            /\ lock' = Released(t)
            /\ Goto(t, "se_ret")
       ELSE /\ search_k' = [search_k EXCEPT ![t] =
                                Min(max_k(index[BackendOf(t)], query[t]), query[t].top_k * 5)]
            /\ Goto(t, "se_loop")
            /\ UNCHANGED <<result, lock>>
    /\ UNCHANGED <<farVars, seen, dimension, clock, storeVars, fsVars, live, index, indexMtime, op,
                   ids, batch, newIndex, offset, cur, fdAt, query, histVars>>

\* one turn of the while loop of search: a return, or search_k doubled
search_iterate(t) ==
    /\ pc[t] = "se_loop"
    /\ LET idx == index[BackendOf(t)]
           raw == index_search(idx, normalize_L2(query[t].q), search_k[t])
           results == passed_hits(idx, query[t], chunks, search_k[t])
       IN  IF raw = <<>> \/ Len(results) >= query[t].top_k
                         \/ search_k[t] >= max_k(idx, query[t])
           THEN /\ result' = [result EXCEPT ![t] =
                                 IF raw = <<>> THEN <<>>
                                 ELSE returned(results, query[t].top_k)]
                /\ lock' = Released(t)
                /\ Goto(t, "se_ret")
                /\ UNCHANGED search_k
           ELSE /\ search_k' = [search_k EXCEPT ![t] =
                                    Min(max_k(idx, query[t]), search_k[t] * 2)]
                /\ UNCHANGED <<result, lock, pc>>
    /\ UNCHANGED <<farVars, seen, dimension, clock, storeVars, fsVars, live, index, indexMtime, op,
                   ids, batch, newIndex, offset, cur, fdAt, query, histVars>>

\* the caller has taken the results
search_return(t) ==
    /\ pc[t] = "se_ret"
    /\ Return(t)
    /\ watch' = [watch EXCEPT ![t] = "none"]
    /\ justIndexed' = [justIndexed EXCEPT ![t] = {}]
    /\ UNCHANGED <<farVars, dimension, search_k, clock, storeVars, fsVars, backendVars, fdAt, committed>>
    /\ seen' = Recorded(SearchEvent(t))

\* --------------------------------------------------------------- __init__
\* a new instance replaces the thread's backend: FaissSearchBackend(...),
\* with the dimension argument or the length of the probe embedding
init_start(t, d) ==
    /\ pc[t] = "idle"
    /\ \A u \in ThreadsOf(BackendOf(t)) : pc[u] = "idle"
    /\ dimension' = [dimension EXCEPT ![BackendOf(t)] = d]
    /\ live' = [live EXCEPT ![BackendOf(t)] = FALSE]
    /\ index' = [index EXCEPT ![BackendOf(t)] = NoIndex]
    /\ indexMtime' = [indexMtime EXCEPT ![BackendOf(t)] = NoMtime]
    /\ lock' = Released(t)
    /\ op' = [op EXCEPT ![t] = "ctor"]
    /\ Goto(t, "ct_exists")
    /\ committed' = [committed EXCEPT ![BackendOf(t)] = FALSE]
    /\ justIndexed' = [u \in Threads |->
                         IF BackendOf(u) = BackendOf(t) THEN {} ELSE justIndexed[u]]
    /\ UNCHANGED <<farVars, seen, search_k, clock, storeVars, fsVars, localVars, watch>>

\* _load_or_create_index: if self.index_path.exists()
load_or_create_exists(t) ==
    /\ pc[t] = "ct_exists"
    /\ IF fsFinal.ex
       THEN /\ Goto(t, "ct_read")
            /\ UNCHANGED newIndex
       ELSE /\ Goto(t, "sv_open")
            /\ newIndex' = [newIndex EXCEPT ![t] = create_empty_index(dimension[BackendOf(t)])]
    /\ UNCHANGED <<farVars, seen, dimension, search_k, clock, storeVars, fsVars, backendVars, op, ids, batch, offset,
                   cur, fdAt, query, result, histVars>>

\* index = faiss.read_index(path): no dimension check; an exception ends
\* the construction
load_or_create_read(t) ==
    /\ pc[t] = "ct_read"
    /\ \E new \in read_index(fsFinal) :
         IF new.d = 0
         THEN /\ Return(t)
         ELSE /\ newIndex' = [newIndex EXCEPT ![t] = new]
              /\ Goto(t, "ct_stat")
              /\ UNCHANGED <<op, ids, batch, offset, cur, query, result>>
    /\ UNCHANGED <<farVars, seen, dimension, search_k, clock, storeVars, fsVars, backendVars, fdAt, histVars>>

\* self.index = ...; self._index_mtime = self._get_file_mtime_or_none()
init_finish(t) ==
    /\ pc[t] = "ct_stat"
    /\ index' = [index EXCEPT ![BackendOf(t)] = newIndex[t]]
    /\ indexMtime' = [indexMtime EXCEPT ![BackendOf(t)] = get_file_mtime_or_none(fsFinal)]
    /\ live' = [live EXCEPT ![BackendOf(t)] = TRUE]
    /\ Return(t)
    /\ UNCHANGED <<farVars, seen, dimension, search_k, clock, storeVars, fsVars, lock, fdAt, histVars>>

\* ------------------------------------------------------------------- Next
\* the steps a thread can take when its instance is the only one writing the
\* index file
OwnStep(t) ==
    \/ \E S \in SUBSET ChunkIds : index_chunks_start(t, S)
    \/ index_chunks_lock(t)
    \/ index_chunks_mutate(t)
    \/ \E S \in {{}} \cup {{c} : c \in ChunkIds} : delete_chunks_start(t, S)
    \/ delete_chunks_lock(t)
    \/ delete_chunks_mutate(t)
    \/ rebuild_index_start(t)
    \/ rebuild_index_abort(t)
    \/ rebuild_index_batch(t)
    \/ rebuild_index_lock(t)
    \/ rebuild_index_swap(t)
    \/ \E qy \in Queries : search_start(t, qy)
    \/ search_lock(t)
    \/ search_query(t)
    \/ search_return(t)
    \/ maybe_reload_stat(t)
    \/ save_index_open(t)
    \/ save_index_write1(t)
    \/ save_index_write2(t)
    \/ replace_ok(t)
    \/ save_index_stat(t)

\* with another instance writing the same file, a reload can be due and
\* os.replace can fail
Step(t) ==
    \/ OwnStep(t)
    \/ maybe_reload_read(t)
    \/ replace_fails(t)

\* constructing an instance
InitStep(t) ==
    \/ \E d \in Dimensions : init_start(t, d)
    \/ load_or_create_exists(t)
    \/ load_or_create_read(t)
    \/ init_finish(t)

Env ==
    \/ CreateChunk
    \/ \E id \in ChunkIds : DeleteChunk(id)

\* two instances on one index file, one thread each
Next == Tick \/ \E t \in {"a1", "b1"} : Step(t)
Spec == Init /\ [][Next]_vars

\* one instance used by two threads, over a changing ChunkStore
NextShared == Env \/ \E t \in {"a1", "a2"} : OwnStep(t)
SpecShared == Init /\ [][NextShared]_vars

\* one instance, one thread, and saves that can fail
NextFail ==
    \/ CreateChunk
    \/ OwnStep("a1")
    \/ save_index_write_fails("a1")
    \/ save_index_replace_raises("a1")
    \/ save_index_raised("a1")
SpecFail == Init /\ [][NextFail]_vars

\* instances constructed again and again, of either dimension, on an index
\* file that exists or not; they search and delete
InitStopped ==
    /\ live = [b \in Backends |-> FALSE]
    /\ dimension = [b \in Backends |-> 0]
    /\ index = [b \in Backends |-> NoIndex]
    /\ indexMtime = [b \in Backends |-> NoMtime]

InitLife ==
    /\ clock = 0
    /\ chunks = {1}
    /\ nextId = Cardinality(chunks) + 1
    /\ fsFinal \in {NoFile,
                     FileOf(add_with_ids(create_empty_index(Dim), EmbedBatch(SortedSeq(chunks))), 0)}
    /\ InitStopped
    /\ InitIdle

\* the steps of constructing an instance with dimension d, and of its
\* reloads and saves
LifeStep(t, d) ==
    \/ init_start(t, d)
    \/ load_or_create_exists(t)
    \/ load_or_create_read(t)
    \/ init_finish(t)
    \/ maybe_reload_stat(t)
    \/ maybe_reload_read(t)
    \/ save_index_open(t)
    \/ save_index_write1(t)
    \/ save_index_write2(t)
    \/ replace_ok(t)
    \/ replace_fails(t)
    \/ save_index_stat(t)

\* an instance of the embedding dimension indexes and searches; an instance
\* of either dimension deletes
NextLife ==
    \/ Tick
    \/ LifeStep("a1", Dim)
    \/ \E qy \in {[q |-> embed_text(ChunkContent(1)), top_k |-> 1, code |-> "none", dept |-> 0]} :
          search_start("a1", qy)
    \/ search_lock("a1")
    \/ search_query("a1")
    \/ search_return("a1")
    \/ \E S \in {{c} : c \in ChunkIds} : index_chunks_start("a1", S)
    \/ index_chunks_lock("a1")
    \/ index_chunks_mutate("a1")
    \/ \E d \in Dimensions : LifeStep("b1", d)
    \/ \E S \in {{c} : c \in ChunkIds} : delete_chunks_start("b1", S)
    \/ delete_chunks_lock("b1")
    \/ delete_chunks_mutate("b1")
SpecLife == InitLife /\ [][NextLife]_vars

\* ------------------------------------------------- search, turn by turn
\* The indexes and ChunkStores search is run against: the index holds the
\* chunks 1..n in insertion order, the store any of them (the others are
\* stale ids); for the big index, a store with one or no chunk near the
\* end of the ranking.
SearchCases ==
    { <<n, S>> : n \in 0..MaxSmallIndex, S \in SUBSET (1..MaxSmallIndex) }
    \cup { <<BigIndex, S>> : S \in {{}} \cup {{c} : c \in (BigIndex - 3)..BigIndex} }

IndexOfSize(n) == add_with_ids(create_empty_index(Dim), EmbedBatch([i \in 1..n |-> i]))

InitSearch ==
    /\ clock = 0
    /\ \E c \in SearchCases :
          /\ chunks = c[2]
          /\ fsFinal = FileOf(IndexOfSize(c[1]), 0)
    /\ nextId = BigIndex + 1
    /\ InitRest

\* the arguments of search: either query vector, with or without each filter
SearchQueries(idx) ==
    [q : {embed_text(c) : c \in Contents},
     top_k : IF ntotal(idx) > MaxSmallIndex THEN {1} ELSE {1, 2},
     code : {"none"} \cup Departments,
     dept : {0} \cup {ChunkDeptId(c) : c \in 1..2}]

\* the rebuilds and searches are recorded from the start
InitRebuild ==
    /\ clock = 0
    /\ chunks \in InitStores
    /\ nextId = Cardinality(chunks) + 1
    /\ fsFinal = FileOf(add_with_ids(create_empty_index(Dim), EmbedBatch(SortedSeq(chunks))), 0)
    /\ InitBackends
    /\ InitThreads
    /\ seen = [on |-> TRUE, log |-> <<>>]
    /\ InitNoCall
    /\ InitNoDocuments

\* the arguments of the searches between rebuilds
RebuildQueries ==
    {[q |-> embed_text(ChunkContent(1)), top_k |-> 2, code |-> "none", dept |-> 0],
     [q |-> embed_text(ChunkContent(2)), top_k |-> 1, code |-> ChunkDeptCode(2), dept |-> 0]}

\* neither instance is in a call
Quiet == pc["a1"] = "idle" /\ pc["b1"] = "idle"

\* instance A searches (the backend of the chat service), instance B
\* rebuilds (a backend of reindex_all_documents), the ChunkStore grows;
\* one call at a time, and the store changes between calls only
NextRebuild ==
    \/ Tick
    \/ Quiet /\ CreateChunk
    \/ Quiet /\ \E qy \in RebuildQueries : search_start("a1", qy)
    \/ search_lock("a1")
    \/ maybe_reload_stat("a1")
    \/ maybe_reload_read("a1")
    \/ search_query("a1")
    \/ search_return("a1")
    \/ Quiet /\ rebuild_index_start("b1")
    \/ rebuild_index_abort("b1")
    \/ rebuild_index_batch("b1")
    \/ rebuild_index_lock("b1")
    \/ save_index_open("b1")
    \/ save_index_write1("b1")
    \/ save_index_write2("b1")
    \/ replace_ok("b1")
    \/ save_index_stat("b1")
    \/ rebuild_index_swap("b1")
SpecRebuild == InitRebuild /\ [][NextRebuild]_vars

\* one thread searching, the loop of search taken one turn at a time
NextSearch ==
    \/ \E qy \in SearchQueries(index["A"]) : search_start("a1", qy)
    \/ search_lock("a1")
    \/ maybe_reload_stat("a1")
    \/ search_begin("a1")
    \/ search_iterate("a1")
    \/ search_return("a1")
SpecSearch == InitSearch /\ [][NextSearch]_vars

\* ------------------------------------------------------ RAGChatService
\* chat up to the routing decision: route = self.router.route(...)
chat_start ==
    /\ cpc = "idle"
    /\ \E r \in Routes : route' = r
    /\ \E h \in [Filters -> HitLists] : hits' = h
    /\ \E k \in ResultKinds : result_kind' = k
    /\ cpc' = "routed"
    /\ UNCHANGED <<indexVars, docVars, otherVars, scopes, calls, search_results, retrieval_meta, answer, reason>>

\* the non-business return, or embed_text and the entry of
\* _search_with_fallback
chat_branch ==
    /\ cpc = "routed"
    /\ IF not_business(route)
       THEN /\ answer' = "not_business_message"
            /\ reason' = "not_business"
            /\ cpc' = "done"
            /\ UNCHANGED <<calls, scopes>>
       ELSE /\ calls' = Append(calls, <<"embed_text", "">>)
            /\ scopes' = fallback_scopes(route)
            /\ cpc' = "scope"
            /\ UNCHANGED <<answer, reason>>
    /\ UNCHANGED <<indexVars, docVars, otherVars, route, hits, result_kind, search_results, retrieval_meta>>

\* _search_with_fallback: one turn of the loop over scopes
search_with_fallback_scope ==
    /\ cpc = "scope"
    /\ scopes # <<>>
    /\ LET scope == Head(scopes)
           results == hits[scope]
       IN  /\ calls' = Append(calls, <<"search", scope>>)
           /\ IF ~score_readable(results, result_kind)
              THEN /\ cpc' = "raised"
                   /\ UNCHANGED <<scopes, search_results, retrieval_meta>>
              ELSE IF scope_passes(TopScore(results))
              THEN /\ search_results' = results
                   /\ retrieval_meta' = [scope_used |-> scope,
                                         fallback_triggered |-> FALSE,
                                         top_score |-> TopScore(results),
                                         hit_count |-> Len(results)]
                   /\ cpc' = "judge"
                   /\ UNCHANGED scopes
              ELSE /\ scopes' = Tail(scopes)
                   /\ UNCHANGED <<cpc, search_results, retrieval_meta>>
    /\ UNCHANGED <<indexVars, docVars, otherVars, route, hits, result_kind, answer, reason>>

\* _search_with_fallback: the company-wide search after the loop
search_with_fallback_company ==
    /\ cpc = "scope"
    /\ scopes = <<>>
    /\ calls' = Append(calls, <<"search", "company">>)
    /\ IF ~score_readable(hits["company"], result_kind)
       THEN /\ cpc' = "raised"
            /\ UNCHANGED <<search_results, retrieval_meta>>
       ELSE /\ search_results' = hits["company"]
            /\ retrieval_meta' = [scope_used |-> "company",
                                  fallback_triggered |-> TRUE,
                                  top_score |-> TopScore(hits["company"]),
                                  hit_count |-> Len(hits["company"])]
            /\ cpc' = "judge"
    /\ UNCHANGED <<indexVars, docVars, otherVars, route, hits, result_kind, scopes, answer, reason>>

\* chat after the search: the search_weak return, or on to the prompt
chat_judge ==
    /\ cpc = "judge"
    /\ IF search_weak(retrieval_meta)
       THEN /\ answer' = "search_weak_message"
            /\ reason' = "search_weak"
            /\ cpc' = "done"
       ELSE /\ cpc' = "llm"
            /\ UNCHANGED <<answer, reason>>
    /\ UNCHANGED <<indexVars, docVars, otherVars, route, hits, result_kind, scopes, calls, search_results, retrieval_meta>>

\* answer_text = self.llm_client.complete(prompt) and the final return
chat_complete ==
    /\ cpc = "llm"
    /\ calls' = Append(calls, <<"complete", "">>)
    /\ answer' = "llm_answer"
    /\ cpc' = "done"
    /\ UNCHANGED <<indexVars, docVars, otherVars, route, hits, result_kind, scopes, search_results, retrieval_meta, reason>>

\* the caller has taken (answer, meta), or the exception
chat_return ==
    /\ cpc \in {"done", "raised"}
    /\ cpc' = "idle"
    /\ route' = NoRoute
    /\ hits' = NoHits
    /\ result_kind' = "typed_dict"
    /\ scopes' = <<>>
    /\ calls' = <<>>
    /\ search_results' = <<>>
    /\ retrieval_meta' = NoMeta
    /\ answer' = ""
    /\ reason' = ""
    /\ UNCHANGED <<indexVars, docVars, otherVars>>

\* one chat turn after another, against a search backend that may return
\* anything
NextChat ==
    \/ chat_start
    \/ chat_branch
    \/ search_with_fallback_scope
    \/ search_with_fallback_company
    \/ chat_judge
    \/ chat_complete
    \/ chat_return
SpecChat == Init /\ [][NextChat]_vars

\* =================================================== the document service
\* documents/services/document_service.py. One call runs at a time; the
\* calls into the search backend, the storage and the database are steps
\* that either succeed or raise.

\* an AuditLog row: action, status and the call that created it
AuditRow(action, status) == [action |-> action, status |-> status, call |-> ncalls]

\* a delete that removes nothing
delete_cascade_kept(rows, d) == rows

\* document.delete(): the row goes, the Chunk rows cascade with it
delete_cascade(rows, d) == rows \ {d}

\* default_storage.delete(path)
storage_delete(files, path) == files \ {path}

\* no call is running
DocIdle == dpc \in {"idle", "returned", "raised"}

\* the meta of a reindex that has not returned
NoReindexMeta ==
    [total_documents |-> 0, success_documents |-> 0, failed_documents |-> 0, failures |-> <<>>]

\* line 195: failures[:50]
failures_cap == 50

\* a slice that cuts nothing
first_n_all(s, n) == s

\* s[:n]
first_n(s, n) == SubSeq(s, 1, Min(Len(s), n))

\* a call begins: its locals are fresh; d is its document argument
DocCall(operation, first, d) ==
    /\ DocIdle
    /\ ncalls < MaxCalls
    /\ ncalls' = ncalls + 1
    /\ dop' = operation
    /\ dpc' = first
    /\ document' = d
    /\ file_path' = 0
    /\ todo' = IF operation = "reindex" THEN documents ELSE {}
    /\ failed' = 0
    /\ err' = "none"
    /\ raised' = "none"
    /\ comp_failed' = {}
    /\ before_call' = [documents |-> documents, doc_chunks |-> doc_chunks, blobs |-> blobs,
                       indexed_docs |-> indexed_docs]
    /\ total_documents' = IF operation = "reindex" THEN Cardinality(documents) ELSE 0
    /\ success' = 0
    /\ failures' = <<>>
    /\ meta' = NoReindexMeta
    /\ rebuild_calls' = 0

\* a step of the try block raises: control goes to the except clause
DocRaise(e, handler) ==
    /\ err' = e
    /\ dpc' = handler

\* the locals of reindex_all_documents that no other operation touches
reindexVars == <<total_documents, success, failures, meta, rebuild_calls>>

\* upload_document, lines 26-29
upload_start ==
    /\ DocCall("upload", "up_save", 0)
    /\ UNCHANGED <<indexVars, chatVars, otherVars, documents, doc_chunks, blobs, indexed_docs, audit>>

\* line 32: default_storage.save
upload_save ==
    /\ dpc = "up_save"
    /\ \/ /\ blobs' = blobs \cup {ncalls}
          /\ file_path' = ncalls
          /\ dpc' = "up_create"
          /\ err' = err
       \/ /\ DocRaise("storage", "up_except")
          /\ UNCHANGED <<blobs, file_path>>
    /\ UNCHANGED <<indexVars, chatVars, otherVars, before_call, reindexVars, dop, ncalls, documents, doc_chunks, indexed_docs, audit,
                   document, todo, failed, raised, comp_failed>>

\* lines 35-40: Document.objects.create
upload_create ==
    /\ dpc = "up_create"
    /\ \/ /\ documents' = documents \cup {ncalls}
          /\ document' = ncalls
          /\ dpc' = "up_ingest"
          /\ err' = err
       \/ /\ DocRaise("db", "up_except")
          /\ UNCHANGED <<documents, document>>
    /\ UNCHANGED <<indexVars, chatVars, otherVars, before_call, reindexVars, dop, ncalls, doc_chunks, blobs, indexed_docs, audit,
                   file_path, todo, failed, raised, comp_failed>>

\* line 43: ingest_document writes the Chunk rows or raises IngestionError
\* (unsupported type, scan PDF, empty text, no chunks) before writing any
upload_ingest ==
    /\ dpc = "up_ingest"
    /\ \/ /\ doc_chunks' = doc_chunks \cup {document}
          /\ dpc' = "up_index"
          /\ err' = err
       \/ /\ DocRaise("ingestion", "up_except")
          /\ UNCHANGED doc_chunks
    /\ UNCHANGED <<indexVars, chatVars, otherVars, before_call, reindexVars, dop, ncalls, documents, blobs, indexed_docs, audit,
                   document, file_path, todo, failed, raised, comp_failed>>

\* lines 46-49: a backend is constructed and upserts the chunks
upload_index ==
    /\ dpc = "up_index"
    /\ \/ /\ indexed_docs' = indexed_docs \cup {document}
          /\ dpc' = "up_audit"
          /\ err' = err
       \/ /\ \E e \in {"backend", "index"} : DocRaise(e, "up_except")
          /\ UNCHANGED indexed_docs
    /\ UNCHANGED <<indexVars, chatVars, otherVars, before_call, reindexVars, dop, ncalls, documents, doc_chunks, blobs, audit,
                   document, file_path, todo, failed, raised, comp_failed>>

\* lines 52-74: the SUCCESS row, then return document
upload_audit ==
    /\ dpc = "up_audit"
    /\ \/ /\ audit' = Append(audit, AuditRow("UPLOAD", "SUCCESS"))
          /\ dpc' = "returned"
          /\ err' = err
       \/ /\ DocRaise("audit", "up_except")
          /\ UNCHANGED audit
    /\ UNCHANGED <<indexVars, chatVars, otherVars, before_call, reindexVars, dop, ncalls, documents, doc_chunks, blobs, indexed_docs,
                   document, file_path, todo, failed, raised, comp_failed>>

\* lines 79-83: the Document is deleted if it was created; an exception of
\* the delete is swallowed
upload_except_document ==
    /\ dpc = "up_except"
    /\ dpc' = "up_except_blob"
    /\ IF document = 0
       THEN UNCHANGED <<documents, doc_chunks, comp_failed>>
       ELSE \/ /\ documents' = delete_cascade(documents, document)
               /\ doc_chunks' = delete_cascade(doc_chunks, document)
               /\ UNCHANGED comp_failed
            \/ /\ comp_failed' = comp_failed \cup {"document"}
               /\ UNCHANGED <<documents, doc_chunks>>
    /\ UNCHANGED <<indexVars, chatVars, otherVars, before_call, reindexVars, dop, ncalls, blobs, indexed_docs, audit,
                   document, file_path, todo, failed, err, raised>>

\* lines 84-88: the blob is deleted if it was saved; an exception of the
\* delete is swallowed
upload_except_blob ==
    /\ dpc = "up_except_blob"
    /\ dpc' = "up_except_audit"
    /\ IF file_path = 0
       THEN UNCHANGED <<blobs, comp_failed>>
       ELSE \/ /\ blobs' = storage_delete(blobs, file_path)
               /\ UNCHANGED comp_failed
            \/ /\ comp_failed' = comp_failed \cup {"blob"}
               /\ UNCHANGED blobs
    /\ UNCHANGED <<indexVars, chatVars, otherVars, before_call, reindexVars, dop, ncalls, documents, doc_chunks, indexed_docs, audit,
                   document, file_path, todo, failed, err, raised>>

\* lines 90-106: the FAILED row, then the caught exception is raised again;
\* if the row cannot be written, the exception of the write leaves the call
upload_except_audit ==
    /\ dpc = "up_except_audit"
    /\ \/ /\ audit' = Append(audit, AuditRow("UPLOAD", "FAILED"))
          /\ raised' = err
       \/ /\ raised' = "audit_write"
          /\ UNCHANGED audit
    /\ dpc' = "raised"
    /\ UNCHANGED <<indexVars, chatVars, otherVars, before_call, reindexVars, dop, ncalls, documents, doc_chunks, blobs, indexed_docs,
                   document, file_path, todo, failed, err, comp_failed>>

\* delete_document, lines 113-120, for a Document row that exists
delete_start ==
    /\ \E d \in documents : DocCall("delete", "dl_index", d)
    /\ UNCHANGED <<indexVars, chatVars, otherVars, documents, doc_chunks, blobs, indexed_docs, audit>>

\* lines 123-126: if the document has chunks, a backend is constructed and
\* removes their ids from the index
delete_index ==
    /\ dpc = "dl_index"
    /\ IF document \in doc_chunks
       THEN \/ /\ indexed_docs' = indexed_docs \ {document}
               /\ dpc' = "dl_blob"
               /\ err' = err
            \/ /\ \E e \in {"backend", "index"} : DocRaise(e, "dl_except")
               /\ UNCHANGED indexed_docs
       ELSE /\ dpc' = "dl_blob"
            /\ UNCHANGED <<indexed_docs, err>>
    /\ UNCHANGED <<indexVars, chatVars, otherVars, before_call, reindexVars, dop, ncalls, documents, doc_chunks, blobs, audit,
                   document, file_path, todo, failed, raised, comp_failed>>

\* lines 129-130: the blob of the document is deleted
delete_blob ==
    /\ dpc = "dl_blob"
    /\ \/ /\ blobs' = storage_delete(blobs, document)
          /\ dpc' = "dl_row"
          /\ err' = err
       \/ /\ DocRaise("storage", "dl_except")
          /\ UNCHANGED blobs
    /\ UNCHANGED <<indexVars, chatVars, otherVars, before_call, reindexVars, dop, ncalls, documents, doc_chunks, indexed_docs, audit,
                   document, file_path, todo, failed, raised, comp_failed>>

\* line 133: document.delete(), the only statement of the transaction that
\* writes to the database
delete_row ==
    /\ dpc = "dl_row"
    /\ \/ /\ documents' = delete_cascade(documents, document)
          /\ doc_chunks' = delete_cascade(doc_chunks, document)
          /\ dpc' = "dl_audit"
          /\ err' = err
       \/ /\ DocRaise("db", "dl_except")
          /\ UNCHANGED <<documents, doc_chunks>>
    /\ UNCHANGED <<indexVars, chatVars, otherVars, before_call, reindexVars, dop, ncalls, blobs, indexed_docs, audit,
                   document, file_path, todo, failed, raised, comp_failed>>

\* lines 135-143: the SUCCESS row
delete_audit ==
    /\ dpc = "dl_audit"
    /\ \/ /\ audit' = Append(audit, AuditRow("DELETE", "SUCCESS"))
          /\ dpc' = "returned"
          /\ err' = err
       \/ /\ DocRaise("audit", "dl_except")
          /\ UNCHANGED audit
    /\ UNCHANGED <<indexVars, chatVars, otherVars, before_call, reindexVars, dop, ncalls, documents, doc_chunks, blobs, indexed_docs,
                   document, file_path, todo, failed, raised, comp_failed>>

\* lines 145-155: the FAILED row, then the caught exception is raised again;
\* if the row cannot be written, the exception of the write leaves the call
delete_except ==
    /\ dpc = "dl_except"
    /\ \/ /\ audit' = Append(audit, AuditRow("DELETE", "FAILED"))
          /\ raised' = err
       \/ /\ raised' = "audit_write"
          /\ UNCHANGED audit
    /\ dpc' = "raised"
    /\ UNCHANGED <<indexVars, chatVars, otherVars, before_call, reindexVars, dop, ncalls, documents, doc_chunks, blobs, indexed_docs,
                   document, file_path, todo, failed, err, comp_failed>>

\* reindex_all_documents, lines 159-167
reindex_start ==
    /\ DocCall("reindex", "rx_loop", 0)
    /\ UNCHANGED <<indexVars, chatVars, otherVars, documents, doc_chunks, blobs, indexed_docs, audit>>

\* the first document of qs the loop has not reached (order_by("id"))
NextDoc == CHOOSE d \in todo : \A e \in todo : d <= e

\* lines 169-184: one round of the loop; the chunks are deleted and written
\* again in one transaction, and an exception is counted, not raised
reindex_one(ok) ==
    /\ dpc = "rx_loop"
    /\ todo # {}
    /\ todo' = todo \ {NextDoc}
    /\ IF ok
       THEN /\ doc_chunks' = doc_chunks \cup {NextDoc}
            /\ success' = success + 1
            /\ UNCHANGED <<failed, failures>>
       ELSE /\ failed' = failed + 1
            /\ failures' = Append(failures, NextDoc)
            /\ UNCHANGED <<doc_chunks, success>>
    /\ UNCHANGED <<indexVars, chatVars, otherVars, before_call, dpc, dop, ncalls, documents, blobs, indexed_docs, audit,
                   document, file_path, err, raised, comp_failed, total_documents, meta, rebuild_calls>>

\* the ingestion of any document may fail
reindex_document == \E ok \in BOOLEAN : reindex_one(ok)

\* lines 186-187, outside any try: a backend is constructed and rebuilds
\* the index from all Chunk rows (it keeps the file when there are none)
reindex_rebuild ==
    /\ dpc = "rx_loop"
    /\ todo = {}
    /\ rebuild_calls' = rebuild_calls + 1
    /\ \/ /\ indexed_docs' = IF doc_chunks = {} THEN indexed_docs ELSE doc_chunks
          /\ dpc' = "rx_audit"
          /\ UNCHANGED raised
       \/ /\ \E e \in {"backend", "index"} : raised' = e
          /\ dpc' = "raised"
          /\ UNCHANGED indexed_docs
    /\ UNCHANGED <<indexVars, chatVars, otherVars, before_call, dop, ncalls, documents, doc_chunks, blobs, audit,
                   document, file_path, todo, failed, err, comp_failed, total_documents, success,
                   failures, meta>>

\* lines 190-198
reindex_meta ==
    [total_documents |-> total_documents, success_documents |-> success,
     failed_documents |-> failed, failures |-> first_n(failures, failures_cap)]

\* lines 190-210: the REINDEX_ALL row, then return meta
reindex_audit ==
    /\ dpc = "rx_audit"
    /\ \/ /\ audit' = Append(audit, AuditRow("REINDEX_ALL", IF failed = 0 THEN "SUCCESS" ELSE "FAILED"))
          /\ meta' = reindex_meta
          /\ dpc' = "returned"
          /\ UNCHANGED raised
       \/ /\ raised' = "audit_write"
          /\ dpc' = "raised"
          /\ UNCHANGED <<audit, meta>>
    /\ UNCHANGED <<indexVars, chatVars, otherVars, before_call, dop, ncalls, documents, doc_chunks, blobs, indexed_docs,
                   document, file_path, todo, failed, err, comp_failed, total_documents, success,
                   failures, rebuild_calls>>

\* the numbers of documents a reindex-all starts with
DocumentCounts == {0, 1, 2, ManyDocuments}

\* documents that were uploaded and indexed before
InitReindex ==
    /\ clock = 0
    /\ chunks = {1}
    /\ nextId = Cardinality(chunks) + 1
    /\ fsFinal = FileOf(add_with_ids(create_empty_index(Dim), EmbedBatch(SortedSeq(chunks))), 0)
    /\ InitBackends
    /\ InitThreads
    /\ seen = [on |-> FALSE, log |-> <<>>]
    /\ InitNoCall
    /\ \E n \in DocumentCounts : documents = 1..n
    /\ doc_chunks = documents
    /\ blobs = documents
    /\ indexed_docs = documents

\* ingestion fails for every document from some document on, as when the
\* embedding provider goes down during the loop
reindex_document_outage == \E ok \in BOOLEAN : (failed > 0 => ~ok) /\ reindex_one(ok)

\* reindex-all, one call after another
NextReindex ==
    \/ reindex_start
    \/ reindex_document_outage
    \/ reindex_rebuild
    \/ reindex_audit
SpecReindex == InitReindex /\ [][NextReindex]_vars

\* upload, delete and reindex-all, one call after another
NextDocs ==
    \/ upload_start
    \/ upload_save
    \/ upload_create
    \/ upload_ingest
    \/ upload_index
    \/ upload_audit
    \/ upload_except_document
    \/ upload_except_blob
    \/ upload_except_audit
    \/ delete_start
    \/ delete_index
    \/ delete_blob
    \/ delete_row
    \/ delete_audit
    \/ delete_except
    \/ reindex_start
    \/ reindex_document
    \/ reindex_rebuild
    \/ reindex_audit
SpecDocs == Init /\ [][NextDocs]_vars

\* ======================================================== RoutingService
\* chat/services/routing_service.py and chat/schemas/routing.py.  Strings
\* are taken from a small alphabet; a clarifying question is the sequence
\* of its tokens, confidences are in hundredths.

\* str.strip() over the alphabet
strip(s) ==
    CASE s = " it " -> "it"
      [] s = " " -> ""
      [] OTHER -> s

\* the range of a sequence
Range(s) == {s[i] : i \in DOMAIN s}

\* the order of the strings that sorted() follows
CodeOrder == <<"fin", "hr", "it", "legal", "unknown", "zz">>

\* line 34: sorted(set([c.strip() for c in department_codes if c and c.strip()]))
sorted_codes(department_codes) ==
    SelectSeq(CodeOrder,
              LAMBDA c : \E i \in DOMAIN department_codes :
                            /\ department_codes[i] # ""
                            /\ strip(department_codes[i]) # ""
                            /\ strip(department_codes[i]) = c)

\* the department_codes arguments route is called with
DepartmentCodeLists ==
    {<<>>, <<"hr">>, <<"it", "hr">>, <<"hr", " it ", "", " ", "hr">>,
     <<"legal", "it", "hr", "fin">>}

\* the longest secondary_departments list the LLM returns
MaxSecondaries == 3

\* the values the LLM puts into secondary_departments
SecondaryValues == {"hr", "it", "fin", "zz", ""}
SecondaryLists == UNION {[1..n -> SecondaryValues] : n \in 0..MaxSecondaries}

\* the clarifying questions the LLM writes: none, blank, one
LLMQuestions == {<<>>, <<" ">>, <<"which?">>}

\* the JSON objects the LLM returns, each field of its declared type and
\* each confidence within its range
LLMOutputs ==
    [is_business : BOOLEAN, business_confidence : {90},
     primary_department : {"unknown", "hr", "it", "zz", " "},
     department_confidence : {0, 70},
     secondary_departments : SecondaryLists,
     needs_clarification : BOOLEAN,
     clarifying_question : LLMQuestions]

\* not clarifying_question.strip()
blank(q) == \A i \in DOMAIN q : strip(q[i]) = ""

\* routing.py lines 21-22 and 36-37: the validator raises
validation_fails(r) ==
    \/ r.needs_clarification /\ blank(r.clarifying_question)
    \/ strip(r.primary_department) = ""

\* routing.py lines 25-33: empty entries, the primary and repeats are dropped
RECURSIVE dedup(_, _, _)
dedup(ds, primary, sec) ==
    IF ds = <<>> THEN sec
    ELSE LET d == Head(ds)
         IN  IF d = "" \/ d = primary \/ d \in Range(sec)
             THEN dedup(Tail(ds), primary, sec)
             ELSE dedup(Tail(ds), primary, Append(sec, d))

\* RoutingResult._validate_consistency on an object that passes
validate_consistency(r) ==
    [r EXCEPT !.secondary_departments = dedup(r.secondary_departments, r.primary_department, <<>>)]

\* line 120: [:2]
max_secondary == 2

\* a post-validation that drops the first secondary each time
post_validate_drop_first(r, codes) ==
    [r EXCEPT !.secondary_departments = IF @ = <<>> THEN @ ELSE Tail(@)]

\* RoutingService._post_validate, lines 102-122
post_validate(r, codes) ==
    LET unusable == /\ r.primary_department # "unknown"
                    /\ codes # <<>>
                    /\ r.primary_department \notin Range(codes)
        r1 == IF unusable
              THEN [r EXCEPT !.needs_clarification = TRUE,
                                  !.clarifying_question = <<"choose from:">> \o codes,
                                  !.primary_department = "unknown",
                                  !.department_confidence = 0,
                                  !.secondary_departments = <<>>]
              ELSE r
    IN  IF codes # <<>>
        THEN [r1 EXCEPT !.secondary_departments =
                 first_n(SelectSeq(r1.secondary_departments,
                                   LAMBDA d : d \in Range(codes) /\ d # r1.primary_department),
                         max_secondary)]
        ELSE r1

\* a default that is a non-business decision without a question
safe_default_silent(question) == NoRoutingResult

\* lines 79-87 and 91-99: the safe default with its question
safe_default(question) ==
    [is_business |-> TRUE, business_confidence |-> 0, primary_department |-> "unknown",
     department_confidence |-> 0, secondary_departments |-> <<>>,
     needs_clarification |-> TRUE, clarifying_question |-> question]

\* route, lines 27-56: dept_codes and the prompt
route_start ==
    /\ rpc \in {"idle", "rt_ret"}
    /\ \E codes \in DepartmentCodeLists : dept_codes' = sorted_codes(codes)
    /\ output_parsed' = NoRoutingResult
    /\ routing_result' = NoRoutingResult
    /\ route_error' = "none"
    /\ rpc' = "rt_call"
    /\ UNCHANGED <<indexVars, chatVars, docVars, sessVars, ingestVars, promptVars>>

\* lines 60-70: client.responses.parse returns an object the schema accepts,
\* raises ValidationError for one it rejects, or fails in another way (the
\* transport, the API, no parsed output)
route_parse ==
    /\ rpc = "rt_call"
    /\ \/ \E raw \in LLMOutputs :
            IF validation_fails(raw)
            THEN /\ route_error' = "validation"
                 /\ rpc' = "rt_except"
                 /\ UNCHANGED <<output_parsed, routing_result>>
            ELSE /\ output_parsed' = validate_consistency(raw)
                 /\ routing_result' = validate_consistency(raw)
                 /\ rpc' = "rt_post"
                 /\ UNCHANGED route_error
       \/ /\ route_error' = "api"
          /\ rpc' = "rt_except"
          /\ UNCHANGED <<output_parsed, routing_result>>
    /\ UNCHANGED <<indexVars, chatVars, docVars, sessVars, ingestVars, promptVars, dept_codes>>

\* line 73: return self._post_validate(result, dept_codes)
route_post_validate ==
    /\ rpc = "rt_post"
    /\ routing_result' = post_validate(routing_result, dept_codes)
    /\ rpc' = "rt_ret"
    /\ UNCHANGED <<indexVars, chatVars, docVars, sessVars, ingestVars, promptVars, dept_codes, output_parsed, route_error>>

\* lines 75-99: either except clause returns the safe default
route_except ==
    /\ rpc = "rt_except"
    /\ routing_result' =
          safe_default(IF route_error = "validation" THEN <<"name one topic">>
                       ELSE <<"network error, try again">>)
    /\ rpc' = "rt_ret"
    /\ UNCHANGED <<indexVars, chatVars, docVars, sessVars, ingestVars, promptVars, dept_codes, output_parsed, route_error>>

\* one call of route after another
NextRoute ==
    \/ route_start
    \/ route_parse
    \/ route_post_validate
    \/ route_except
SpecRoute == Init /\ [][NextRoute]_vars

\* ============================================ chat sessions and the views
\* session_manager.py and chat/views.py. A holder is a browser: its
\* request.session and its login live in session_store. A request handler
\* loads request.session at its first access and SessionMiddleware saves it,
\* when modified, with the response.

\* qs.filter(user=request.user) for a login, qs.filter(user__isnull=True)
\* without one (session_manager.py lines 20-23 and 47-50)
owned_by_anyone(row, user) == TRUE
owned(row, user) == row.user = user

\* ChatSession.objects.filter(id=session_id, ended_at__isnull=True), the
\* owner filter and .first(): the id of the row, NULL for None
first(session_id, user) ==
    IF /\ session_id \in 1..Len(chat_sessions)
       /\ chat_sessions[session_id].ended_at = NULL
       /\ owned(chat_sessions[session_id], user)
    THEN session_id
    ELSE NULL

HolderBusy(h) == \E r \in Requests : rq[r].pc # "idle" /\ rq[r].holder = h

\* the texts request.POST.get("message", "") can hold
UserTexts == {<<>>, <<" ">>, <<"hello">>}

\* what rag_service.chat returns: the branch that returned and
\* routing.primary_department (rag_chat.py lines 52-56, 83-90, 121-129)
ChatReturns ==
    {<<"not_business", "unknown">>, <<"not_business", " ">>, <<"search_weak", "hr">>,
     <<"answer", "it">>, <<"answer", "zz">>}

chat_meta(kind, primary_department) ==
    [routing |-> primary_department,
     retrieval |-> IF kind = "not_business" THEN "none" ELSE "retrieval",
     citations |-> IF kind = "answer" THEN <<"doc">> ELSE <<>>]

\* views.py lines 111-118
extract_department_code_from_meta(m) ==
    IF m.routing = "none" \/ strip(m.routing) \in {"", "unknown"} THEN "none"
    ELSE strip(m.routing)

\* a request arrives: chat/urls.py dispatches it to index or reset_view
request_start(r, h, v) ==
    /\ rq[r].pc = "idle"
    /\ \E text \in UserTexts :
          /\ v # "index_post" => text = <<>>
          /\ rq' = [rq EXCEPT ![r] =
                       [NoRequest EXCEPT !.pc = IF v = "reset" THEN "rs_get" ELSE "gs_get",
                                         !.view = v, !.holder = h, !.user_text = text]]
    /\ UNCHANGED <<indexVars, chatVars, docVars, routeVars, ingestVars, promptVars,
                   chat_sessions, chat_messages, session_store, now>>

\* get_or_create_session line 14: request.session.get("chat_session_id")
\* loads the holder's session data, and with it request.user
get_or_create_get(r) ==
    /\ rq[r].pc = "gs_get"
    /\ LET stored == session_store[rq[r].holder]
       IN  rq' = [rq EXCEPT ![r].user = stored.user,
                            ![r].session_id = stored.chat_session_id,
                            ![r].pc = IF stored.chat_session_id # NULL THEN "gs_query"
                                      ELSE "gs_create"]
    /\ UNCHANGED <<indexVars, chatVars, docVars, routeVars, ingestVars, promptVars,
                   chat_sessions, chat_messages, session_store, now>>

\* lines 16-27
get_or_create_query(r) ==
    /\ rq[r].pc = "gs_query"
    /\ LET s == first(rq[r].session_id, rq[r].user)
       IN  rq' = IF s # NULL
                 THEN [rq EXCEPT ![r].session = s,
                                 ![r].answer_department = chat_sessions[s].answer_department,
                                 ![r].pc = "ix_session"]
                 ELSE [rq EXCEPT ![r].pc = "gs_create"]
    /\ UNCHANGED <<indexVars, chatVars, docVars, routeVars, ingestVars, promptVars,
                   chat_sessions, chat_messages, session_store, now>>

\* lines 29-33; holder is history: the browser the row was created for
get_or_create_create(r) ==
    /\ rq[r].pc = "gs_create"
    /\ Len(chat_sessions) < MaxSessions
    /\ chat_sessions' = Append(chat_sessions,
                               [user |-> rq[r].user, ended_at |-> NULL, created_at |-> now,
                                answer_department |-> "none", holder |-> rq[r].holder])
    /\ now' = now + 1
    /\ rq' = [rq EXCEPT ![r].session = Len(chat_sessions) + 1,
                        ![r].session_id = Len(chat_sessions) + 1,
                        ![r].modified = TRUE,
                        ![r].pc = "ix_session"]
    /\ UNCHANGED <<indexVars, chatVars, docVars, routeVars, ingestVars, promptVars, chat_messages, session_store>>

\* index lines 15-25 and 81-102: the GET view reads and renders, the POST
\* view goes on unless the stripped message is empty
index_view(r) ==
    /\ rq[r].pc = "ix_session"
    /\ rq' = [rq EXCEPT ![r].pc = IF rq[r].view = "index_post" /\ ~blank(rq[r].user_text)
                                  THEN "ix_user" ELSE "end"]
    /\ UNCHANGED <<indexVars, chatVars, docVars, routeVars, ingestVars, promptVars,
                   chat_sessions, chat_messages, session_store, now>>

\* the requests that have written their user row and not yet the reply
InTurn == {r \in Requests : rq[r].pc \in {"ix_chat", "ix_assistant"}}

\* index lines 28-32; reply_to is history (NULL on a user row)
index_user(r) ==
    /\ rq[r].pc = "ix_user"
    /\ Len(chat_messages) + Cardinality(InTurn) + 2 <= MaxMessages
    /\ chat_messages' = Append(chat_messages,
                               [session |-> rq[r].session, role |-> "user",
                                content |-> "hello", created_at |-> now,
                                routing_meta |-> "none", retrieval_meta |-> "none",
                                citations |-> <<>>, reply_to |-> NULL])
    /\ now' = now + 1
    /\ rq' = [rq EXCEPT ![r].user_msg = Len(chat_messages) + 1, ![r].pc = "ix_chat"]
    /\ UNCHANGED <<indexVars, chatVars, docVars, routeVars, ingestVars, promptVars, chat_sessions, session_store>>

\* views.py lines 120-136, then session.refresh_from_db of line 43:
\* the row as it is after the call and the value the handler's object holds
update_session_answer_department_from_meta(r, m) ==
    LET dept_code == extract_department_code_from_meta(m)
        s == rq[r].session
    IN  IF dept_code \in Departments /\ rq[r].answer_department # dept_code
        THEN [chat_sessions EXCEPT ![s].answer_department = dept_code]
        ELSE chat_sessions

\* index lines 35-49: rag_service.chat returns or raises, the session's
\* department is updated, routing is saved on the user row
index_chat(r) ==
    /\ rq[r].pc = "ix_chat"
    /\ \E raises \in BOOLEAN, ret \in ChatReturns :
          LET m == IF raises THEN EmptyMeta ELSE chat_meta(ret[1], ret[2])
              a == IF raises THEN "apology" ELSE ret[1]
              rows == update_session_answer_department_from_meta(r, m)
          IN  /\ raises => ret = <<"not_business", "unknown">>
              /\ chat_sessions' = rows
              /\ chat_messages' =
                    IF m.routing # "none"
                    THEN [chat_messages EXCEPT ![rq[r].user_msg].routing_meta = m.routing]
                    ELSE chat_messages
              /\ rq' = [rq EXCEPT ![r].answer = a, ![r].meta = m,
                                  ![r].answer_department = rows[rq[r].session].answer_department,
                                  ![r].pc = "ix_assistant"]
    /\ UNCHANGED <<indexVars, chatVars, docVars, routeVars, ingestVars, promptVars, session_store, now>>

\* index lines 52-67
index_assistant(r) ==
    /\ rq[r].pc = "ix_assistant"
    /\ chat_messages' = Append(chat_messages,
                               [session |-> rq[r].session, role |-> "assistant",
                                content |-> rq[r].answer, created_at |-> now,
                                routing_meta |-> "none",
                                retrieval_meta |-> rq[r].meta.retrieval,
                                citations |-> rq[r].meta.citations,
                                reply_to |-> rq[r].user_msg])
    /\ now' = now + 1
    /\ rq' = [rq EXCEPT ![r].pc = "end"]
    /\ UNCHANGED <<indexVars, chatVars, docVars, routeVars, ingestVars, promptVars, chat_sessions, session_store>>

\* reset_session lines 40-42
reset_get(r) ==
    /\ rq[r].pc = "rs_get"
    /\ LET stored == session_store[rq[r].holder]
       IN  rq' = [rq EXCEPT ![r].user = stored.user,
                            ![r].session_id = stored.chat_session_id,
                            ![r].pc = IF stored.chat_session_id # NULL THEN "rs_query"
                                      ELSE "end"]
    /\ UNCHANGED <<indexVars, chatVars, docVars, routeVars, ingestVars, promptVars,
                   chat_sessions, chat_messages, session_store, now>>

\* lines 44-55
reset_query(r) ==
    /\ rq[r].pc = "rs_query"
    /\ LET s == first(rq[r].session_id, rq[r].user)
       IN  rq' = IF s # NULL
                 THEN [rq EXCEPT ![r].session = s, ![r].pc = "rs_end"]
                 ELSE [rq EXCEPT ![r].session_id = NULL, ![r].modified = TRUE,
                                 ![r].pc = "end"]
    /\ UNCHANGED <<indexVars, chatVars, docVars, routeVars, ingestVars, promptVars,
                   chat_sessions, chat_messages, session_store, now>>

\* lines 56-61
reset_end(r) ==
    /\ rq[r].pc = "rs_end"
    /\ chat_sessions' = [chat_sessions EXCEPT ![rq[r].session].ended_at = now]
    /\ now' = now + 1
    /\ rq' = [rq EXCEPT ![r].session_id = NULL, ![r].modified = TRUE, ![r].pc = "end"]
    /\ UNCHANGED <<indexVars, chatVars, docVars, routeVars, ingestVars, promptVars, chat_messages, session_store>>

\* the response: SessionMiddleware saves a modified request.session
request_end(r) ==
    /\ rq[r].pc = "end"
    /\ session_store' =
          IF rq[r].modified
          THEN [session_store EXCEPT ![rq[r].holder].chat_session_id = rq[r].session_id]
          ELSE session_store
    /\ rq' = [rq EXCEPT ![r] = NoRequest]
    /\ UNCHANGED <<indexVars, chatVars, docVars, routeVars, ingestVars, promptVars, chat_sessions, chat_messages, now>>

\* a login of an anonymous browser keeps its session data
login(h) ==
    /\ ~HolderBusy(h)
    /\ session_store[h].user = Anonymous
    /\ \E u \in Users : session_store' = [session_store EXCEPT ![h].user = u]
    /\ UNCHANGED <<indexVars, chatVars, docVars, routeVars, ingestVars, promptVars, chat_sessions, chat_messages, now, rq>>

\* a logout flushes the session data
logout(h) ==
    /\ ~HolderBusy(h)
    /\ session_store[h].user # Anonymous
    /\ session_store' = [session_store EXCEPT
                            ![h] = [user |-> Anonymous, chat_session_id |-> NULL]]
    /\ UNCHANGED <<indexVars, chatVars, docVars, routeVars, ingestVars, promptVars, chat_sessions, chat_messages, now, rq>>

\* the steps of get_or_create_session and of the response
SessionStep(r) ==
    \/ get_or_create_get(r)
    \/ get_or_create_query(r)
    \/ get_or_create_create(r)
    \/ index_view(r)
    \/ request_end(r)

ResetStep(r) ==
    \/ reset_get(r)
    \/ reset_query(r)
    \/ reset_end(r)

TurnStep(r) ==
    \/ index_user(r)
    \/ index_chat(r)
    \/ index_assistant(r)

\* the browsers open the chat page and reset it and log in and out, while
\* one of them opens the chat page in a second, concurrent request
NextSession ==
    \/ \E h \in Holders, v \in {"index_get", "reset"} : request_start("r1", h, v)
    \/ request_start("r2", "h1", "index_get")
    \/ \E r \in Requests : SessionStep(r)
    \/ \E r \in Requests : ResetStep(r)
    \/ \E h \in Holders : login(h)
    \/ \E h \in Holders : logout(h)
SpecSession == Init /\ [][NextSession]_vars

AllIdle == \A r \in Requests : rq[r].pc = "idle"

\* the same requests, one handled after the other
NextSessionSeq ==
    \/ \E r \in Requests, h \in Holders, v \in {"index_get", "reset"} :
          AllIdle /\ request_start(r, h, v)
    \/ \E r \in Requests : SessionStep(r)
    \/ \E r \in Requests : ResetStep(r)
    \/ \E h \in Holders : login(h)
    \/ \E h \in Holders : logout(h)
SpecSessionSeq == Init /\ [][NextSessionSeq]_vars

\* the rows two turns write
MaxTurnRows == 4

\* a turn begins only while the rows of MaxTurnRows are not used up
RowsLeft(r) ==
    rq[r].pc = "ix_user" => Len(chat_messages) + Cardinality(InTurn) + 2 <= MaxTurnRows

\* one browser posts messages in concurrent requests, two turns in all
NextTurn ==
    \/ \E r \in Requests : request_start(r, "h1", "index_post")
    \/ \E r \in Requests : SessionStep(r)
    \/ \E r \in Requests : RowsLeft(r) /\ TurnStep(r)
SpecTurn == Init /\ [][NextTurn]_vars

\* one browser posts a message and, once its session id is stored, posts
\* messages in concurrent requests
NextDept ==
    \/ \E r \in Requests :
          /\ session_store["h1"].chat_session_id = NULL => AllIdle
          /\ request_start(r, "h1", "index_post")
    \/ \E r \in Requests : SessionStep(r)
    \/ \E r \in Requests : TurnStep(r)
SpecDept == Init /\ [][NextDept]_vars

\* ============================================================= ingestion
\* documents/services/document_ingestion.py, and the statements of the
\* document service that write Document and Chunk rows, at the level of
\* the rows. A text is the sequence of the pieces the splitter cuts it
\* into; " " is a piece of white space only.

\* line 47
CSV_LINES_PER_CHUNK_DEFAULT == 20

ScanWarnings == {"no_text_extracted", "image_pdf_suspected"}

\* a CSV text of n lines
CsvLines(n) == [i \in 1..n |-> "r"]

\* what extractor.extract_content returns: a PDF of three pages, one of
\* them blank, scanned PDFs with and without some text, text files with
\* and without text, a CSV file of more lines than a chunk takes
ExtractedContents ==
    {[type |-> "pdf", warnings |-> {"low_text_volume"}, num_pages |-> 3,
      pages |-> << <<" ">>, <<"a", " ", "b">>, <<"c">> >>, full_text |-> <<" ", "a", " ", "b", "c">>,
      csv_header |-> <<>>, rows_per_chunk_hint |-> NULL],
     [type |-> "pdf", warnings |-> {"low_text_volume", "no_text_extracted", "image_pdf_suspected"},
      num_pages |-> 1, pages |-> << <<" ">> >>, full_text |-> <<" ">>,
      csv_header |-> <<>>, rows_per_chunk_hint |-> NULL],
     [type |-> "pdf", warnings |-> {"image_pdf_suspected"}, num_pages |-> 2,
      pages |-> << <<"a">>, <<" ">> >>, full_text |-> <<"a", " ">>,
      csv_header |-> <<>>, rows_per_chunk_hint |-> NULL],
     [type |-> "text", warnings |-> {}, num_pages |-> NULL,
      pages |-> <<>>, full_text |-> <<"a", " ", "b">>,
      csv_header |-> <<>>, rows_per_chunk_hint |-> NULL],
     [type |-> "text", warnings |-> {}, num_pages |-> NULL,
      pages |-> <<>>, full_text |-> <<" ">>,
      csv_header |-> <<>>, rows_per_chunk_hint |-> NULL],
     [type |-> "csv", warnings |-> {}, num_pages |-> NULL,
      pages |-> <<>>, full_text |-> CsvLines(CSV_LINES_PER_CHUNK_DEFAULT + 1),
      csv_header |-> <<"h">>, rows_per_chunk_hint |-> CSV_LINES_PER_CHUNK_DEFAULT]}

\* the step of ingest_document at which a collaborator fails: the
\* extractor, document.save, the embedding provider, bulk_create
Faults == {"none", "extract", "save", "embed", "bulk_create"}

\* the stripped, non-empty chunks of splitter.split_text(text)
\* (lines 86-89, 101-104, 106-109); for a CSV text, its non-empty lines (line 155)
chunks_of(text) == SelectSeq(text, LAMBDA piece : strip(piece) # "")

\* lines 82-89: enumerate(content.pages, start=1); a blank page gives nothing
RECURSIVE page_pairs(_, _)
page_pairs(pages, page_idx) ==
    IF page_idx > Len(pages) THEN <<>>
    ELSE [k \in 1..Len(chunks_of(pages[page_idx])) |->
              [page |-> page_idx, text |-> <<chunks_of(pages[page_idx])[k]>>]]
         \o page_pairs(pages, page_idx + 1)

\* _chunk_csv, lines 152-166: blocks of n lines, each under the header line
RECURSIVE _chunk_csv(_, _, _)
_chunk_csv(lines, header, n) ==
    IF lines = <<>> THEN <<>>
    ELSE <<[page |-> NULL,
            text |-> (IF header # <<>> THEN <<"header">> ELSE <<>>)
                     \o SubSeq(lines, 1, Min(n, Len(lines)))]>>
         \o _chunk_csv(SubSeq(lines, Min(n, Len(lines)) + 1, Len(lines)), header, n)

\* lines 79-109: page_chunk_pairs
page_chunk_pairs(content) ==
    IF content.pages # <<>> THEN page_pairs(content.pages, 1)
    ELSE IF content.type = "csv"
         THEN _chunk_csv(chunks_of(content.full_text), content.csv_header,
                         IF content.rows_per_chunk_hint # NULL THEN content.rows_per_chunk_hint
                         ELSE CSV_LINES_PER_CHUNK_DEFAULT)
         ELSE [k \in 1..Len(chunks_of(content.full_text)) |->
                  [page |-> NULL, text |-> <<chunks_of(content.full_text)[k]>>]]

\* an enumerate that counts from one
chunk_objs_from_one(d, pairs) ==
    [k \in 1..Len(pairs) |->
        [document |-> d, chunk_index |-> k, page |-> pairs[k].page, content |-> pairs[k].text]]

\* lines 123-133: idx of enumerate(zip(page_chunk_pairs, vectors)), one
\* vector for each text
chunk_objs(d, pairs) ==
    [k \in 1..Len(pairs) |->
        [document |-> d, chunk_index |-> k - 1, page |-> pairs[k].page, content |-> pairs[k].text]]

\* lines 64-65
scan_pdf(content) == content.type = "pdf" /\ content.warnings \cap ScanWarnings # {}

\* a clean-up that deletes nothing
delete_chunks_none(rows, d) == rows

\* doc.chunks.all().delete(), and the CASCADE of document.delete()
delete_chunks(rows, d) == SelectSeq(rows, LAMBDA r : r.document # d)

\* ingest_document without the check of lines 63-69
ingest_raises_unscanned(content, fault) ==
    IF fault = "extract" THEN "extract"
    ELSE IF fault = "save" /\ content.num_pages # NULL THEN "save"
    ELSE IF content.pages = <<>> /\ blank(content.full_text) THEN "empty_text"
    ELSE IF page_chunk_pairs(content) = <<>> THEN "no_chunks"
    ELSE IF fault \in {"embed", "bulk_create"} THEN fault
    ELSE "none"

\* the exception ingest_document raises for this content and fault, "none"
\* when it returns (lines 57-58, 64-69, 76, 92-96, 111-115, 120, 135)
ingest_raises(content, fault) ==
    IF fault = "extract" THEN "extract"
    ELSE IF scan_pdf(content) THEN "scan_pdf"
    ELSE IF fault = "save" /\ content.num_pages # NULL THEN "save"
    ELSE IF content.pages = <<>> /\ blank(content.full_text) THEN "empty_text"
    ELSE IF page_chunk_pairs(content) = <<>> THEN "no_chunks"
    ELSE IF fault \in {"embed", "bulk_create"} THEN fault
    ELSE "none"

\* the exceptions raised after document.save(update_fields=["num_page"])
AfterSave == {"empty_text", "no_chunks", "embed", "bulk_create", "none"}

\* ingest_document, lines 50-143, on the Chunk rows and num_page values
\* given: the rows and values it leaves, what it raises, the extract_meta
\* of its IngestionError, and chunk_count
ingest_document(rows, pages, d, content, fault) ==
    LET raises == ingest_raises(content, fault)
    IN  [raised |-> raises,
         extract_meta |-> IF raises \in {"scan_pdf", "empty_text", "no_chunks"}
                          THEN [type |-> content.type, warnings |-> content.warnings]
                          ELSE NoExtractMeta,
         num_page |-> IF raises \in AfterSave /\ content.num_pages # NULL
                      THEN [pages EXCEPT ![d] = content.num_pages]
                      ELSE pages,
         rows |-> IF raises = "none" THEN rows \o chunk_objs(d, page_chunk_pairs(content))
                  ELSE rows,
         chunk_count |-> IF raises = "none" THEN Len(page_chunk_pairs(content)) ELSE 0]

\* the Chunk rows of document d, in order of creation
ChunksOf(rows, d) == SelectSeq(rows, LAMBDA r : r.document = d)

\* what is kept of a call of ingest_document
Ingested(caller, d, content, res) ==
    [document |-> d, caller |-> caller,
     scan_pdf |-> res.raised # "extract" /\ scan_pdf(content),
     raised |-> res.raised, extract_meta |-> res.extract_meta, chunk_count |-> res.chunk_count]

\* a function without the argument d
Without(f, d) == [x \in DOMAIN f \ {d} |-> f[x]]

\* upload_document lines 35-40, with the Document row: num_page is NULL
upload_create_rows ==
    /\ dpc = "up_create"
    /\ \/ /\ documents' = documents \cup {ncalls}
          /\ num_page' = [x \in DOMAIN num_page \cup {ncalls} |->
                             IF x = ncalls THEN NULL ELSE num_page[x]]
          /\ document' = ncalls
          /\ dpc' = "up_ingest"
          /\ err' = err
       \/ /\ DocRaise("db", "up_except")
          /\ UNCHANGED <<documents, document, num_page>>
    /\ UNCHANGED <<indexVars, chatVars, routeVars, sessVars, promptVars, chunk_rows, ingestion, before_call,
                   reindexVars, dop, ncalls, doc_chunks, blobs, indexed_docs, audit,
                   file_path, todo, failed, raised, comp_failed>>

\* line 43, with the rows ingest_document writes; no transaction is open
upload_ingest_rows ==
    /\ dpc = "up_ingest"
    /\ \E content \in ExtractedContents, fault \in Faults :
          LET res == ingest_document(chunk_rows, num_page, document, content, fault)
          IN  /\ chunk_rows' = res.rows
              /\ num_page' = res.num_page
              /\ ingestion' = Ingested("upload", document, content, res)
              /\ IF res.raised = "none"
                 THEN /\ doc_chunks' = doc_chunks \cup {document}
                      /\ dpc' = "up_index"
                      /\ err' = err
                 ELSE /\ DocRaise("ingestion", "up_except")
                      /\ UNCHANGED doc_chunks
    /\ UNCHANGED <<indexVars, chatVars, routeVars, sessVars, promptVars, before_call, reindexVars, dop, ncalls,
                   documents, blobs, indexed_docs, audit, document, file_path, todo, failed,
                   raised, comp_failed>>

\* lines 79-83, with the rows: document.delete() takes the Chunk rows along
upload_except_document_rows ==
    /\ dpc = "up_except"
    /\ dpc' = "up_except_blob"
    /\ IF document = 0
       THEN UNCHANGED <<documents, doc_chunks, comp_failed, chunk_rows, num_page>>
       ELSE \/ /\ documents' = delete_cascade(documents, document)
               /\ doc_chunks' = delete_cascade(doc_chunks, document)
               /\ chunk_rows' = delete_chunks(chunk_rows, document)
               /\ num_page' = Without(num_page, document)
               /\ UNCHANGED comp_failed
            \/ /\ comp_failed' = comp_failed \cup {"document"}
               /\ UNCHANGED <<documents, doc_chunks, chunk_rows, num_page>>
    /\ UNCHANGED <<indexVars, chatVars, routeVars, sessVars, promptVars, ingestion, before_call, reindexVars,
                   dop, ncalls, blobs, indexed_docs, audit, document, file_path, todo, failed,
                   err, raised>>

\* delete_document line 133, with the rows
delete_row_rows ==
    /\ dpc = "dl_row"
    /\ \/ /\ documents' = delete_cascade(documents, document)
          /\ doc_chunks' = delete_cascade(doc_chunks, document)
          /\ chunk_rows' = delete_chunks(chunk_rows, document)
          /\ num_page' = Without(num_page, document)
          /\ dpc' = "dl_audit"
          /\ err' = err
       \/ /\ DocRaise("db", "dl_except")
          /\ UNCHANGED <<documents, doc_chunks, chunk_rows, num_page>>
    /\ UNCHANGED <<indexVars, chatVars, routeVars, sessVars, promptVars, ingestion, before_call, reindexVars,
                   dop, ncalls, blobs, indexed_docs, audit, document, file_path, todo, failed,
                   raised, comp_failed>>

\* reindex_all_documents lines 169-184, with the rows: the Chunk rows of
\* the document are deleted and ingest_document runs in one transaction,
\* which an exception rolls back
reindex_one_rows ==
    /\ dpc = "rx_loop"
    /\ todo # {}
    /\ todo' = todo \ {NextDoc}
    /\ \E content \in ExtractedContents, fault \in Faults :
          LET res == ingest_document(delete_chunks(chunk_rows, NextDoc), num_page,
                                     NextDoc, content, fault)
          IN  /\ ingestion' = Ingested("reindex", NextDoc, content, res)
              /\ IF res.raised = "none"
                 THEN /\ chunk_rows' = res.rows
                      /\ num_page' = res.num_page
                      /\ doc_chunks' = doc_chunks \cup {NextDoc}
                      /\ success' = success + 1
                      /\ UNCHANGED <<failed, failures>>
                 ELSE /\ failed' = failed + 1
                      /\ failures' = Append(failures, NextDoc)
                      /\ UNCHANGED <<chunk_rows, num_page, doc_chunks, success>>
    /\ UNCHANGED <<indexVars, chatVars, routeVars, sessVars, promptVars, before_call, dpc, dop, ncalls,
                   documents, blobs, indexed_docs, audit, document, file_path, err, raised,
                   comp_failed, total_documents, meta, rebuild_calls>>

\* the Document rows an upload may find
MaxIngested == 2

\* upload, delete and reindex-all, one call after another, with the
\* Document and Chunk rows
NextIngest ==
    \/ Cardinality(documents) < MaxIngested /\ upload_start
    \/ upload_save
    \/ upload_create_rows
    \/ upload_ingest_rows
    \/ upload_index
    \/ upload_audit
    \/ upload_except_document_rows
    \/ upload_except_blob
    \/ upload_except_audit
    \/ delete_start
    \/ delete_index
    \/ delete_blob
    \/ delete_row_rows
    \/ delete_audit
    \/ delete_except
    \/ reindex_start
    \/ reindex_one_rows
    \/ reindex_rebuild
    \/ reindex_audit
SpecIngest == Init /\ [][NextIngest]_vars

\* ============================================================ the prompt
\* Texts are sequences of tokens: a letter, a blank, a line break, and each
\* label or fixed line of the prompt as one token.
Whitespace == {" ", "\n"}

\* str.strip()
RECURSIVE lstrip(_)
lstrip(s) == IF s # <<>> /\ Head(s) \in Whitespace THEN lstrip(Tail(s)) ELSE s
RECURSIVE rstrip(_)
rstrip(s) ==
    IF s # <<>> /\ s[Len(s)] \in Whitespace THEN rstrip(SubSeq(s, 1, Len(s) - 1)) ELSE s
str_strip(s) == rstrip(lstrip(s))

\* str.endswith(suffix)
endswith(s, suffix) ==
    /\ Len(suffix) <= Len(s)
    /\ SubSeq(s, Len(s) - Len(suffix) + 1, Len(s)) = suffix

\* "\n".join(lines)
RECURSIVE join(_)
join(lines) ==
    IF lines = <<>> THEN <<>>
    ELSE IF Len(lines) = 1 THEN lines[1]
    ELSE lines[1] \o <<"\n">> \o join(Tail(lines))

\* lines 136-142: one line per message of the history, and the user's
\* message unless the history ends with it
history_lines(history, user_message) ==
    [i \in 1..Len(history) |->
        <<IF history[i].role = "user" THEN "User: " ELSE "Assistant: ">> \o history[i].content]
    \o (IF \/ history = <<>>
           \/ history[Len(history)].role # "user"
           \/ history[Len(history)].content # user_message
        THEN << <<"User: ">> \o user_message >>
        ELSE <<>>)

\* the blanks a line of the literal of lines 146-163 begins with
Indent == <<" ">>
\* the four lines under [Instruction], lines 156-159
InstructionLines == <<"- instruction 1", "\n", " ", "- instruction 2", "\n", " ",
                      "- instruction 3", "\n", " ", "- instruction 4">>

\* a prompt whose Question block comes before the Instruction block
_build_prompt_instruction_last(system_prompt, history, context, user_message) ==
    <<"[system]", "\n">> \o Indent \o system_prompt \o <<"\n", "\n">>
    \o Indent \o <<"[Conversation history]", "\n">> \o Indent
    \o join(history_lines(history, user_message)) \o <<"\n", "\n">>
    \o Indent \o <<"[Retrieved context]", "\n">> \o Indent \o context \o <<"\n", "\n">>
    \o Indent \o <<"[Question]", "\n">> \o Indent \o user_message \o <<"\n", "\n">>
    \o Indent \o <<"[Instruction]", "\n">> \o Indent \o InstructionLines \o <<"\n">> \o Indent

\* _build_prompt, lines 131-164
_build_prompt(system_prompt, history, context, user_message) ==
    <<"[system]", "\n">> \o Indent \o system_prompt \o <<"\n", "\n">>
    \o Indent \o <<"[Conversation history]", "\n">> \o Indent
    \o join(history_lines(history, user_message)) \o <<"\n", "\n">>
    \o Indent \o <<"[Retrieved context]", "\n">> \o Indent \o context \o <<"\n", "\n">>
    \o Indent \o <<"[Instruction]", "\n">> \o Indent \o InstructionLines \o <<"\n", "\n">>
    \o Indent \o <<"[Question]", "\n">> \o Indent \o user_message \o <<"\n">> \o Indent

\* the texts of up to n tokens over an alphabet
TextsUpTo(alphabet, n) == UNION {[1..k -> alphabet] : k \in 0..n}

\* request.POST.get("message", ""): letters, blanks, and text that reads
\* like a label of the prompt
MaxMessageLen == 2
PostedMessages == TextsUpTo({"a", " ", "[Question]"}, MaxMessageLen)

\* the rows of a session that chat reads as history, oldest first: what
\* users wrote and what was answered
MaxHistory == 2
HistoryRows ==
    {[role |-> "user", content |-> <<"a">>],
     [role |-> "user", content |-> <<"a", "[Question]">>],
     [role |-> "assistant", content |-> <<"a">>],
     [role |-> "assistant", content |-> <<"[Instruction]", "\n">>]}
Histories == TextsUpTo(HistoryRows, MaxHistory)

\* context_block of chat, lines 96-104: nothing, or Chunk contents
Contexts == {<<>>, <<"a", "\n", "\n", "[Question]", " ">>}

\* _select_system_prompt(route.primary_department)
SystemPrompts == {<<"you answer questions">>}

\* views.py lines 19-25 and rag_chat.py lines 110-115: the view strips the
\* posted message and returns when nothing is left; chat builds the prompt
\* of the turn from the stripped message
chat_build_prompt ==
    /\ \E posted \in PostedMessages, history \in Histories, context \in Contexts,
          system_prompt \in SystemPrompts :
          LET user_text == str_strip(posted)
          IN  /\ user_text # <<>>
              /\ prompt' = [system_prompt |-> system_prompt, history |-> history,
                            context |-> context, user_message |-> user_text,
                            text |-> _build_prompt(system_prompt, history, context, user_text)]
    /\ UNCHANGED <<indexVars, chatVars, docVars, routeVars, sessVars, ingestVars>>

\* the prompts of the turns of a chat
NextPrompt == chat_build_prompt
SpecPrompt == Init /\ [][NextPrompt]_vars

\* ================================================================= claims

\* C1: in every reachable state, also while two instances run index_chunks,
\* delete_chunks or rebuild_index concurrently, the file at the index path
\* is a complete index that one writer serialised, never a partially
\* written or mixed file, so no load or reload reads one.
C1_IndexFileComplete == Complete(fsFinal)

\* a search has returned on thread t after starting with a complete index
\* file newer than its instance had observed, and no write overlapped it
ReloadCase(t) == pc[t] = "se_ret" /\ watch[t] = "fresh"

\* C2: hot reload.  When another instance has committed an index file whose
\* mtime is past the one this instance last observed, the instance's next
\* search reloads the file before searching: its results are those of the
\* committed index and its in-memory ntotal is that of the file.
C2_HotReload ==
    \A t \in Threads :
        ReloadCase(t) =>
            /\ index[BackendOf(t)] = fsFinal.b1
            /\ ntotal(index[BackendOf(t)]) = ntotal(fsFinal.b1)
            /\ result[t] = search(fsFinal.b1, query[t], chunks)

C2_Witness ==
    /\ ReloadCase("a1")
    /\ committed["B"]
    /\ ntotal(index["A"]) = 0
    /\ chunks = {1}

\* C3: rebuild_index called while the ChunkStore holds no chunks aborts: no
\* step of that call changes the index file (contents, mtime), the tmp file,
\* or the instance's in-memory index and observed mtime.
C3_EmptyRebuildKeepsIndex ==
    [][\A t \in Threads :
          /\ (pc[t] = "idle" /\ op'[t] = "rebuild" /\ chunks = {}) =>
                /\ pc'[t] = "rb_abort"
                /\ UNCHANGED <<fsFinal, fsTmp, index, indexMtime>>
          /\ (pc[t] = "rb_abort" /\ pc'[t] # pc[t]) =>
                /\ pc'[t] = "idle"
                /\ UNCHANGED <<fsFinal, fsTmp, index, indexMtime>>]_vars

C3_Witness ==
    /\ pc["a1"] = "rb_abort"
    /\ chunks = {}
    /\ Complete(fsFinal)
    /\ ntotal(fsFinal.b1) > 0
    /\ ntotal(index["A"]) > 0

\* the thread of backend b that is inside a "with self._lock" block
Holder(b) == lock[b]

\* C4: while rebuild_index runs on a backend, a search on that backend reads
\* the in-memory index only under the lock, and the in-memory index changes
\* only by a step of the thread holding the lock, which for a rebuild is the
\* one step that swaps in the index it has finished building: a search
\* observes the old index or the new one, never the index under construction.
C4_SearchSeesOldOrNew ==
    /\ [](\A t \in Threads : pc[t] = "se_query" => Holder(BackendOf(t)) = t)
    /\ [][\A b \in Backends :
             index'[b] # index[b] =>
                /\ Holder(b) # NoThread
                /\ pc'[Holder(b)] # pc[Holder(b)]
                /\ op[Holder(b)] = "rebuild" =>
                      (pc[Holder(b)] = "rb_swap" /\ index'[b] = newIndex[Holder(b)])]_vars

C4_Witness ==
    /\ pc["a1"] = "se_query"
    /\ op["a2"] = "rebuild"
    /\ pc["a2"] = "rb_batch"
    /\ offset["a2"] > 0
    /\ ntotal(index["A"]) > 0
    /\ newIndex["a2"] # index["A"]

\* thread t is inside a critical section of its instance
InCritical(t) ==
    pc[t] \in {"rl_stat", "rl_read", "ic_mutate", "dc_mutate", "se_query", "rb_swap"}
    \/ (pc[t] \in {"sv_open", "sv_w1", "sv_w2", "sv_rename", "sv_stat"} /\ op[t] # "ctor")

\* C5: the operations of one process that read or change an in-memory index
\* or write the index file are mutually exclusive under one process-wide
\* lock, those of DocumentService's instance and of the chat instance too.
C5_ProcessWideMutex ==
    \A t, u \in Threads :
        (t # u /\ ProcessOf(BackendOf(t)) = ProcessOf(BackendOf(u)))
            => ~(InCritical(t) /\ InCritical(u))

\* the score the chunk has for the query that is its own embedding
OwnScore(c) ==
    InnerProduct(normalize_L2(embed_text(ChunkContent(c))),
                 normalize_L2(embed_text(ChunkContent(c))))

\* C6: a search that directly follows the thread's index_chunks(ids), is
\* unfiltered and queries with the embedding of one of those chunks, returns
\* that chunk at rank 1 (up to score ties), whatever other index operations
\* on other ids were in progress.
C6_IndexedChunkRanksFirst ==
    \A t \in Threads : \A c \in justIndexed[t] :
        ( /\ pc[t] = "se_ret"
          /\ c \in chunks
          /\ query[t].code = "none" /\ query[t].dept = 0
          /\ query[t].q = embed_text(ChunkContent(c)) )
        => /\ result[t] # <<>>
           /\ result[t][1][2] = OwnScore(c)

\* C7: last writer wins with convergence.  When both instances have
\* committed a write to the index file and the writes have ended, the next
\* public call an instance makes (a search, which no write overlaps) leaves
\* its in-memory index equal to the index in the file.
C7_LastWriterWins ==
    \A t \in Threads :
        ( /\ pc[t] = "se_ret"
          /\ watch[t] # "tainted"
          /\ \A u \in Threads \ {t} : pc[u] = "idle"
          /\ \A b \in Backends : committed[b] )
        => index[BackendOf(t)] = fsFinal.b1

\* C8: whenever the routing decision has needs_clarification = true, chat
\* returns the clarifying question with reason "needs_clarification", and
\* embed_text, search and complete are not called during the turn.
C8_ClarificationShortCircuits ==
    (cpc # "idle" /\ route.needs_clarification) =>
        /\ calls = <<>>
        /\ cpc = "done" => (reason = "needs_clarification" /\ answer = "clarifying_question")

\* C9: whenever the routing decision has is_business = false, chat returns
\* the canned non-business message with reason "not_business", and
\* embed_text, search and complete are not called during the turn.
C9_NotBusinessShortCircuits ==
    (cpc # "idle" /\ ~route.is_business) =>
        /\ calls = <<>>
        /\ cpc \in {"routed", "done"}
        /\ cpc = "done" => (reason = "not_business" /\ answer = "not_business_message")

C9_Witness ==
    /\ cpc = "done"
    /\ ~route.is_business
    /\ route.primary_department = "hr"
    /\ reason = "not_business"

\* the searches among the calls made so far, by filter
Searched == LET s == SelectSeq(calls, LAMBDA c : c[1] = "search")
            IN  [i \in 1..Len(s) |-> s[i][2]]

\* the departments of a route in the claimed order: primary, then the
\* secondaries, "unknown" left out, each once
RECURSIVE Distinct(_)
Distinct(ds) ==
    IF ds = <<>> THEN <<>>
    ELSE LET front == Distinct(SubSeq(ds, 1, Len(ds) - 1))
             last == ds[Len(ds)]
         IN  IF last \in {front[i] : i \in 1..Len(front)} THEN front
             ELSE Append(front, last)
ClaimedScopes(r) ==
    Distinct(SelectSeq(<<r.primary_department>> \o r.secondary_departments,
                       LAMBDA d : d # "unknown"))

\* the first scope in order whose top score is at least the threshold; 0 if
\* there is none
FirstPassing(sc, h) ==
    LET ok == {i \in 1..Len(sc) : h[sc[i]] # <<>> /\ h[sc[i]][1] >= SCORE_THRESHOLD}
    IN  IF ok = {} THEN 0 ELSE CHOOSE i \in ok : \A j \in ok : i <= j

\* C10: scoped search with fallback.  Scopes are searched in the order
\* primary department (if not "unknown"), then each distinct secondary that
\* is not "unknown".  The first scope whose top score is non-null and
\* >= 0.55 (0.55 itself passes) ends the search: its results are returned
\* with scope_used = the scope and fallback_triggered = false, and nothing
\* more is searched.  The company-wide search is issued, and reported with
\* scope_used = "company" and fallback_triggered = true, exactly when no
\* scope passes; a scope with no hits never passes.  The search always ends
\* with one of these two reports.
C10_ScopedSearchWithFallback ==
    LET sc == ClaimedScopes(route)
        p == FirstPassing(sc, hits)
    IN  /\ cpc # "raised"
        /\ cpc = "scope" =>
              /\ Searched = SubSeq(sc, 1, Len(sc) - Len(scopes))
              /\ p = 0 \/ p > Len(Searched)
        /\ (cpc \in {"judge", "llm", "done"} /\ route.is_business) =>
              IF p > 0
              THEN /\ Searched = SubSeq(sc, 1, p)
                   /\ search_results = hits[sc[p]]
                   /\ retrieval_meta.scope_used = sc[p]
                   /\ retrieval_meta.fallback_triggered = FALSE
                   /\ retrieval_meta.top_score = hits[sc[p]][1]
              ELSE /\ Searched = Append(sc, "company")
                   /\ search_results = hits["company"]
                   /\ retrieval_meta.scope_used = "company"
                   /\ retrieval_meta.fallback_triggered = TRUE

\* the retrieval _search_with_fallback chose is weak: no hits, or a top
\* score (None for no hits) under the threshold
WeakRetrieval == search_results = <<>> \/ TopScore(search_results) < SCORE_THRESHOLD

\* complete has been called in the running turn
CompleteCalled == \E i \in 1..Len(calls) : calls[i][1] = "complete"

\* C11: whenever the retrieval the scoped fallback chose is weak (no hits,
\* null top score, or top score < 0.55), chat returns the specify-topic
\* message with reason "search_weak" and the retrieval meta of that
\* retrieval, and complete is not called; complete is called only in turns
\* whose retrieval has at least one hit and a top score >= 0.55.
C11_WeakRetrievalSkipsLLM ==
    /\ (cpc = "done" /\ route.is_business /\ WeakRetrieval) =>
          /\ answer = "search_weak_message"
          /\ reason = "search_weak"
          /\ retrieval_meta.hit_count = Len(search_results)
          /\ retrieval_meta.top_score = TopScore(search_results)
          /\ ~CompleteCalled
    /\ (cpc = "llm" \/ CompleteCalled) =>
          /\ Len(search_results) >= 1
          /\ search_results[1] >= SCORE_THRESHOLD

C11_Witness ==
    /\ cpc = "done"
    /\ route.is_business
    /\ reason = "search_weak"
    /\ search_results = <<54>>
    /\ retrieval_meta.scope_used = "company"
    /\ Len(calls) >= 3

\* a search has returned on thread t
Searched_(t) == pc[t] = "se_ret" /\ op[t] = "search"

\* C12: for every index, query, top_k >= 1 and filter, search returns at
\* most top_k results.
C12_AtMostTopK ==
    \A t \in Threads : Searched_(t) => Len(result[t]) <= query[t].top_k

\* more chunks pass than top_k, and top_k were returned
C12_Witness ==
    /\ Searched_("a1")
    /\ query["a1"].top_k = 2
    /\ Len(result["a1"]) = 2
    /\ Len(passed_hits(index["A"], query["a1"], chunks, ntotal(index["A"]))) > 2

\* C13: every result of search refers to a chunk that exists in the
\* ChunkStore (ids the index holds but the store lacks are dropped) and
\* whose document satisfies every filter that is set, department code and
\* department id; a filter naming a department none of whose chunks is
\* indexed yields the empty result.
C13_ResultsExistAndPassFilter ==
    \A t \in Threads : Searched_(t) =>
        /\ \A i \in 1..Len(result[t]) :
              /\ result[t][i][1] \in chunks
              /\ query[t].code # "none" => ChunkDeptCode(result[t][i][1]) = query[t].code
              /\ query[t].dept # 0 => ChunkDeptId(result[t][i][1]) = query[t].dept
        /\ ( /\ query[t].code # "none"
             /\ \A id \in IndexIds(index[BackendOf(t)]) : ChunkDeptCode(id) # query[t].code )
           => result[t] = <<>>

\* a filtered search returned a chunk while a better-ranked hit of the same
\* department was stale
C13_Witness ==
    /\ Searched_("a1")
    /\ query["a1"].code = "hr"
    /\ query["a1"].q = embed_text("leave")
    /\ result["a1"] # <<>>
    /\ result["a1"][1][1] = 4
    /\ 2 \in IndexIds(index["A"]) \ chunks
    /\ 1 \in chunks

\* the reference: R is the raw ranking cut at max_k, F the hits of R whose
\* chunk resolves in the store and passes the filter
Reference(idx, qy, store) ==
    LET R == SubSeq(Ranked(idx.ents, normalize_L2(qy.q)), 1, Min(ntotal(idx), 50 * qy.top_k))
        F == SelectSeq(R, LAMBDA r : /\ r[1] \in store
                                     /\ qy.dept = 0 \/ ChunkDeptId(r[1]) = qy.dept
                                     /\ qy.code = "none" \/ ChunkDeptCode(r[1]) = qy.code)
    IN  SubSeq(F, 1, Min(qy.top_k, Len(F)))

NonIncreasing(r) == \A i \in 1..(Len(r) - 1) : r[i][2] >= r[i + 1][2]

\* C14: search returns exactly the first min(top_k, |F|) elements of F, in
\* the order of the ranking, so with non-increasing scores.  The loop starts
\* from search_k = min(ntotal, 5 * top_k), doubles search_k (capped at
\* max_k = min(ntotal, 50 * top_k)) only while fewer than top_k have passed,
\* and every turn of it returns or raises search_k: it terminates.
C14_SearchEqualsReference ==
    /\ [](\A t \in Threads : Searched_(t) =>
            /\ result[t] = Reference(index[BackendOf(t)], query[t], chunks)
            /\ result[t] = search(index[BackendOf(t)], query[t], chunks)
            /\ NonIncreasing(result[t]))
    /\ [](\A t \in Threads : pc[t] = "se_loop" =>
            /\ search_k[t] >= 1
            /\ search_k[t] <= Min(ntotal(index[BackendOf(t)]), 50 * query[t].top_k))
    /\ [][\A t \in Threads :
            /\ (pc[t] = "se_query" /\ pc'[t] = "se_loop") =>
                  search_k'[t] = Min(ntotal(index[BackendOf(t)]), 5 * query[t].top_k)
            /\ (pc[t] = "se_loop" /\ (pc'[t] # pc[t] \/ search_k'[t] # search_k[t])) =>
                  \/ pc'[t] = "se_ret"
                  \/ /\ pc'[t] = "se_loop"
                     /\ Len(passed_hits(index[BackendOf(t)], query[t], chunks, search_k[t]))
                            < query[t].top_k
                     /\ search_k'[t] = Min(Min(ntotal(index[BackendOf(t)]), 50 * query[t].top_k),
                                           2 * search_k[t])
                     /\ search_k'[t] > search_k[t]]_vars

\* the one passing chunk was found at the last rank inside max_k, after
\* search_k had grown from 5 to 50
C14_Witness ==
    /\ Searched_("a1")
    /\ ntotal(index["A"]) = BigIndex
    /\ search_k["a1"] = 50
    /\ Len(result["a1"]) = 1

\* C15: when the index of the instance holds zero vectors, also when the
\* search has just reloaded it from a committed file of zero vectors, search
\* returns the empty list for every query, top_k and filter.
C15_EmptyIndexEmptyResult ==
    \A t \in Threads :
        /\ (Searched_(t) /\ ntotal(index[BackendOf(t)]) = 0) => result[t] = <<>>
        /\ (ReloadCase(t) /\ ntotal(fsFinal.b1) = 0) => result[t] = <<>>

\* the instance held one vector, the other instance committed an empty
\* index at a later mtime, and the search reloaded it; the chunk still exists
C15_Witness ==
    /\ ReloadCase("a1")
    /\ indexMtime["A"] = 1
    /\ ntotal(index["A"]) = 0
    /\ result["a1"] = <<>>
    /\ 1 \in chunks
    /\ query["a1"].q = embed_text(ChunkContent(1))

\* the reload thread t is about to try cannot succeed: the file is
\* unreadable, or of another dimension than the instance
ReloadMustFail(t) ==
    ~fsFinal.ex \/ fsFinal.b1.d = 0 \/ fsFinal.b1.d # dimension[BackendOf(t)]

\* thread t has tried a reload in the running call and it failed
ReloadFailed(t) == cur[t] # NoMtime /\ indexMtime[BackendOf(t)] # cur[t]

\* C16: when a hot reload fails (the file is unreadable, or its dimension
\* differs from the instance's), the in-memory index and the last-observed
\* mtime stay as they are, no error reaches the caller, and the operation
\* goes on against the old index: the reload step leads to the next step of
\* the same call with the lock held, and a search returns the hits of the
\* old index.
C16_FailedReloadKeepsIndex ==
    /\ [][\A t \in Threads :
            (pc[t] = "rl_read" /\ pc'[t] # pc[t]) =>
                /\ pc'[t] = AfterReload(t)
                /\ op'[t] = op[t] /\ query'[t] = query[t] /\ ids'[t] = ids[t]
                /\ lock'[BackendOf(t)] = t
                /\ \/ /\ index'[BackendOf(t)] = index[BackendOf(t)]
                      /\ indexMtime'[BackendOf(t)] = indexMtime[BackendOf(t)]
                   \/ /\ index'[BackendOf(t)] \in read_index(fsFinal)
                      /\ index'[BackendOf(t)].d = dimension[BackendOf(t)]
                      /\ indexMtime'[BackendOf(t)] = cur[t]
                /\ ReloadMustFail(t) =>
                      /\ index'[BackendOf(t)] = index[BackendOf(t)]
                      /\ indexMtime'[BackendOf(t)] = indexMtime[BackendOf(t)]]_vars
    /\ [](\A t \in Threads :
            (Searched_(t) /\ ReloadFailed(t)) =>
                result[t] = search(index[BackendOf(t)], query[t], chunks))

\* the search of an instance of dimension Dim holding a vector found a
\* complete file of the other dimension, kept its index and returned the hit
C16_Witness ==
    /\ Searched_("a1")
    /\ ReloadFailed("a1")
    /\ Complete(fsFinal)
    /\ fsFinal.b1.d # Dim
    /\ index["A"].d = Dim
    /\ result["a1"] # <<>>

\* C18: in every state of a constructed instance, after construction on an
\* existing or a missing index file and after any reloads and writes, the
\* dimension of its in-memory index is the instance's dimension.
C18_IndexDimensionIsD ==
    \A b \in Backends : live[b] => index[b].d = dimension[b]

\* C17: if persisting fails (the write of the tmp file or the rename)
\* during index_chunks, delete_chunks or rebuild_index, then when the error
\* reaches the caller the index file is the complete committed index, and
\* no partial state is exposed: the in-memory index the instance's next
\* searches use equals the contents of the committed file.
C17_FailedSaveExposesNothing ==
    \A t \in Threads :
        pc[t] = "sv_raised" =>
            /\ Complete(fsFinal)
            /\ index[BackendOf(t)] = fsFinal.b1

\* the AuditLog action of each operation of the document service
ActionOf(operation) ==
    CASE operation = "upload" -> "UPLOAD"
      [] operation = "delete" -> "DELETE"
      [] OTHER -> "REINDEX_ALL"

\* the rows the running call has written
RowsOfCall == {i \in DOMAIN audit : audit[i].call = ncalls}

\* the call has ended, by return or by an exception
CallEnded == dop # "none" /\ dpc \in {"returned", "raised"}

\* the operation completed without failure
CompletedClean == dpc = "returned" /\ failed = 0

\* C19: when a call of upload, delete or reindex-all has ended, by return
\* or by an exception, it has written exactly one AuditLog row, the row has
\* the action of the operation, and its status is SUCCESS exactly when the
\* operation completed without failure.
C19_OneAuditRowPerCall ==
    CallEnded =>
        /\ Cardinality(RowsOfCall) = 1
        /\ \A i \in RowsOfCall :
             /\ audit[i].action = ActionOf(dop)
             /\ (audit[i].status = "SUCCESS") <=> CompletedClean

\* upload has raised
UploadRaised == dop = "upload" /\ dpc = "raised"

\* the running call has written a FAILED UPLOAD row
FailedUploadRow ==
    \E i \in RowsOfCall : audit[i].action = "UPLOAD" /\ audit[i].status = "FAILED"

\* C20 as stated: after upload raises, the half-created Document and its
\* Chunks do not exist, the uploaded blob does not exist, a FAILED UPLOAD
\* row exists and the error that leaves the call is the one of the step
\* that failed.
C20_FailedUploadLeavesNothing ==
    UploadRaised =>
        /\ document # 0 => document \notin documents /\ document \notin doc_chunks
        /\ file_path # 0 => file_path \notin blobs
        /\ FailedUploadRow
        /\ raised = err /\ err # "none"

\* C20, amended: after upload raises, the half-created Document and its
\* Chunks do not exist unless the compensating delete of the Document
\* failed, the uploaded blob does not exist unless its compensating delete
\* failed, and, unless the write of the FAILED row itself failed, a FAILED
\* UPLOAD row exists and the error that leaves the call is the one of the
\* step that failed, whether or not a compensating delete failed.
C20_FailedUploadCompensated ==
    UploadRaised =>
        /\ (document # 0 /\ "document" \notin comp_failed) =>
               document \notin documents /\ document \notin doc_chunks
        /\ (file_path # 0 /\ "blob" \notin comp_failed) => file_path \notin blobs
        /\ raised # "audit_write" => FailedUploadRow /\ raised = err /\ err # "none"
        /\ raised = "audit_write" => RowsOfCall = {}

\* the SUCCESS row of an upload could not be written after the blob, the
\* Document and its Chunks were created; both compensating deletes worked
C20_Witness ==
    /\ UploadRaised
    /\ raised = "audit"
    /\ document # 0
    /\ file_path # 0
    /\ comp_failed = {}
    /\ FailedUploadRow

\* delete has raised after its FAILED row was written
DeleteRaised == dop = "delete" /\ dpc = "raised" /\ raised # "audit_write"

\* d has the same row, Chunks, blob and vectors as when the call began
AsBeforeCall(d) ==
    /\ d \in documents <=> d \in before_call.documents
    /\ d \in doc_chunks <=> d \in before_call.doc_chunks
    /\ d \in blobs <=> d \in before_call.blobs
    /\ d \in indexed_docs <=> d \in before_call.indexed_docs

\* C21: when delete has raised, the Document row, its Chunks, its blob and
\* its vectors in the index are as they were before the call, and the call
\* has written one FAILED DELETE row.
C21_FailedDeleteLeavesNoPartialState ==
    DeleteRaised =>
        /\ AsBeforeCall(document)
        /\ Cardinality(RowsOfCall) = 1
        /\ \A i \in RowsOfCall : audit[i].action = "DELETE" /\ audit[i].status = "FAILED"

\* reindex-all has returned
ReindexReturned == dop = "reindex" /\ dpc = "returned"

\* C22: reindex-all processes every Document: a failure of one document is
\* counted and the loop goes on; rebuild_index is called at most once and
\* only when every document has been processed; on return it was called
\* once, success + failed is the number of documents, the recorded failure
\* list has at most 50 entries, and the REINDEX_ALL row is SUCCESS exactly
\* when failed = 0.
C22_ReindexProcessesAll ==
    dop = "reindex" =>
        /\ success + failed + Cardinality(todo) = Cardinality(before_call.documents)
        /\ failed = Len(failures)
        /\ rebuild_calls <= 1
        /\ rebuild_calls = 1 => todo = {}
        /\ ReindexReturned =>
             /\ rebuild_calls = 1
             /\ meta.success_documents + meta.failed_documents = Cardinality(before_call.documents)
             /\ meta.total_documents = Cardinality(before_call.documents)
             /\ Len(meta.failures) <= failures_cap
             /\ Cardinality(RowsOfCall) = 1
             /\ \A i \in RowsOfCall :
                  /\ audit[i].action = "REINDEX_ALL"
                  /\ (audit[i].status = "SUCCESS") <=> (meta.failed_documents = 0)

\* a reindex-all has returned after more documents failed than the failure
\* list of meta holds, and after at least one succeeded
C22_Witness ==
    /\ ReindexReturned
    /\ failed > failures_cap
    /\ Len(meta.failures) = failures_cap
    /\ success > 0
    /\ audit[Len(audit)].status = "FAILED"

\* the recorded events of each kind
RebuildsSeen == {i \in DOMAIN seen.log : seen.log[i].kind = "rebuild"}
SearchesSeen == {i \in DOMAIN seen.log : seen.log[i].kind = "search"}

\* the answers of two recorded searches with the same arguments, one after a
\* rebuild and the other after the next rebuild
AnswersCompared ==
    {p \in SearchesSeen \X SearchesSeen :
        /\ p[1] < p[2]
        /\ seen.log[p[1]].q = seen.log[p[2]].q
        /\ \E r1, r2 \in RebuildsSeen : r1 < p[1] /\ p[1] < r2 /\ r2 < p[2]}

\* C23: of two rebuilds in a row over an unchanged ChunkStore, each commits
\* the index file, so the mtime of the file after the second is past the
\* mtime after the first, and a search after the second returns the same
\* set of chunks as the same search after the first.
C23_RebuildIdempotent ==
    /\ \A r1, r2 \in RebuildsSeen : r1 < r2 => seen.log[r2].mtime > seen.log[r1].mtime
    /\ \A p \in AnswersCompared : seen.log[p[1]].found = seen.log[p[2]].found

\* route has returned a decision
RouteReturned == rpc = "rt_ret"

\* route has returned the decision it parsed and post-validated
RouteReturnedParsed == RouteReturned /\ route_error = "none"

\* a sequence without repeats
NoRepeats(s) == \A i, j \in DOMAIN s : s[i] = s[j] => i = j

\* a primary department route may return for the known codes
LegalPrimary(p) == p = "unknown" \/ p \in Range(dept_codes)

\* C24: the decision route returns names "unknown" or a known code as its
\* primary department; if the parsed primary was neither, the decision asks
\* for clarification with department confidence 0 and no secondaries; its
\* secondaries are known codes, without repeats, without the primary, at
\* most 2.  For every list of known codes, the empty list included.
C24_ReturnedDecisionIsLegal ==
    RouteReturned =>
        /\ LegalPrimary(routing_result.primary_department)
        /\ (RouteReturnedParsed /\ ~LegalPrimary(output_parsed.primary_department)) =>
              /\ routing_result.needs_clarification
              /\ routing_result.department_confidence = 0
              /\ routing_result.secondary_departments = <<>>
        /\ Range(routing_result.secondary_departments) \subseteq Range(dept_codes)
        /\ NoRepeats(routing_result.secondary_departments)
        /\ routing_result.primary_department \notin Range(routing_result.secondary_departments)
        /\ Len(routing_result.secondary_departments) <= 2

\* route has returned after catching an exception
RouteReturnedDefault == RouteReturned /\ route_error # "none"

\* C25: route does not raise: a call that caught a validation error or any
\* other failure of the LLM call goes on to return, and what it returns is
\* the safe default: a business decision for "unknown" without secondaries
\* that asks for clarification with a question that is not blank.
C25_FailureReturnsSafeDefault ==
    /\ [](RouteReturnedDefault =>
             /\ routing_result.is_business
             /\ routing_result.primary_department = "unknown"
             /\ routing_result.secondary_departments = <<>>
             /\ routing_result.needs_clarification
             /\ ~blank(routing_result.clarifying_question))
    /\ [][rpc = "rt_except" => rpc' = "rt_ret"]_vars
    /\ [][(rpc = "rt_call" /\ rpc' # "rt_post") => (rpc' = "rt_except" /\ route_error' # "none")]_vars

\* route has returned the safe default after a failure of the LLM call
C25_Witness == RouteReturnedDefault /\ route_error = "api"

\* C26: post-validating a post-validated decision again, with the same
\* known codes, changes no field: for the decision route returns, and for
\* every object of the schema's fields whether the validator has seen it
\* or not.
C26_PostValidateIdempotent ==
    /\ RouteReturnedParsed => post_validate(routing_result, dept_codes) = routing_result
    /\ rpc = "rt_call" =>
          \A r \in LLMOutputs :
             post_validate(post_validate(r, dept_codes), dept_codes) = post_validate(r, dept_codes)

\* route has returned a decision that post-validation changed: an unknown
\* primary replaced and the secondaries cleared
C26_Witness ==
    /\ RouteReturnedParsed
    /\ routing_result # output_parsed
    /\ output_parsed.primary_department = "zz"
    /\ output_parsed.secondary_departments # <<>>
    /\ routing_result.primary_department = "unknown"

\* C27: the decision route returns has a clarifying question that is not
\* blank exactly when it asks for clarification.
C27_QuestionIffClarification ==
    RouteReturned =>
        (~blank(routing_result.clarifying_question) <=> routing_result.needs_clarification)

\* the requests whose get_or_create_session has just returned
SessionReturned == {r \in Requests : rq[r].pc = "ix_session"}

\* the session returned is open and has the requester as its user
ReturnedOpenAndOwned ==
    \A r \in SessionReturned :
        /\ rq[r].session \in 1..Len(chat_sessions)
        /\ chat_sessions[rq[r].session].ended_at = NULL
        /\ chat_sessions[rq[r].session].user = session_store[rq[r].holder].user

\* a call that found no session id stored for its browser returns a session it made
ReturnedNewWithoutStoredId ==
    \A r \in SessionReturned :
        session_store[rq[r].holder].chat_session_id = NULL =>
            /\ rq[r].session = Len(chat_sessions)
            /\ chat_sessions[rq[r].session].created_at = now - 1

\* a row keeps its user, and its ended_at once set
RowsKeepOwnerAndEnd ==
    \A s \in 1..Len(chat_sessions) :
        /\ Len(chat_sessions') >= s
        /\ chat_sessions'[s].user = chat_sessions[s].user
        /\ chat_sessions[s].ended_at # NULL =>
              chat_sessions'[s].ended_at = chat_sessions[s].ended_at

\* a reset that found the open session ends it and leaves no id stored
ResetForgets ==
    \A r \in Requests :
        (rq[r].pc = "end" /\ rq[r].view = "reset" /\ rq[r].session # NULL /\ rq'[r].pc = "idle") =>
            /\ chat_sessions[rq[r].session].ended_at # NULL
            /\ session_store'[rq[r].holder].chat_session_id = NULL

\* C28: with the calls handled one after the other, the session that
\* get_or_create_session returns is open and its user is the requester (the
\* user of a login, none for an anonymous browser); no row changes its user
\* and no ended_at is cleared or changed; a reset leaves the browser with no
\* stored id, and the call that finds none returns a session it has created.
C28_ReturnedSessionOpenAndOwned ==
    /\ [](ReturnedOpenAndOwned /\ ReturnedNewWithoutStoredId)
    /\ [][RowsKeepOwnerAndEnd /\ ResetForgets]_vars

\* a session is returned to a browser whose earlier session was reset and to
\* a logged-in browser that still stores the id of its anonymous session
C28_Witness ==
    \E r \in SessionReturned :
        /\ \E s \in 1..Len(chat_sessions) :
              /\ chat_sessions[s].ended_at # NULL
              /\ chat_sessions[s].holder = rq[r].holder
              /\ s < rq[r].session
        /\ \E s \in 1..Len(chat_sessions) :
              /\ chat_sessions[s].ended_at = NULL
              /\ chat_sessions[s].user = Anonymous
              /\ chat_sessions[s].holder = rq[r].holder
              /\ rq[r].user # Anonymous

OpenSessions == {s \in 1..Len(chat_sessions) : chat_sessions[s].ended_at = NULL}

\* the owner of a row: its user, or for a row without user the browser it
\* was created for
SameOwner(s1, s2) ==
    /\ chat_sessions[s1].user = chat_sessions[s2].user
    /\ chat_sessions[s1].user = Anonymous => chat_sessions[s1].holder = chat_sessions[s2].holder

\* C29: in every state, under any interleaving of get_or_create_session and
\* reset_session calls, no owner has two open sessions.
C29_OneOpenSessionPerOwner ==
    \A s1, s2 \in OpenSessions : SameOwner(s1, s2) => s1 = s2

\* the rows of session s created after row i and before row j
Between(s, i, j) ==
    {k \in 1..Len(chat_messages) :
        /\ chat_messages[k].session = s
        /\ chat_messages[i].created_at < chat_messages[k].created_at
        /\ chat_messages[k].created_at < chat_messages[j].created_at}

\* C30: in every state, also with two requests for one session handled
\* concurrently, each assistant row belongs to the session of the user row it
\* answers, is later in created_at order, and no other row of the session lies
\* between the two.
C30_TurnRowsConsecutive ==
    \A j \in 1..Len(chat_messages) :
        chat_messages[j].role = "assistant" =>
            LET i == chat_messages[j].reply_to
            IN  /\ chat_messages[i].role = "user"
                /\ chat_messages[i].session = chat_messages[j].session
                /\ chat_messages[i].created_at < chat_messages[j].created_at
                /\ Between(chat_messages[j].session, i, j) = {}

\* the step of request r in which rag_service.chat raised
ChatRaised(r) == rq[r].pc = "ix_chat" /\ rq'[r].answer = "apology"

\* the handler goes on to the reply with the apology and an empty meta, and
\* writes neither the session row nor the user row
RaiseLeavesRowsAlone ==
    \A r \in Requests :
        ChatRaised(r) =>
            /\ rq'[r].pc = "ix_assistant"
            /\ rq'[r].meta.routing = "none"
            /\ rq'[r].meta.retrieval = "none"
            /\ rq'[r].meta.citations = <<>>
            /\ chat_sessions' = chat_sessions
            /\ chat_messages' = chat_messages
            /\ rq'[r].answer_department = chat_sessions[rq[r].session].answer_department

\* the turns that ended after rag_service.chat raised
RaisedTurns ==
    {r \in Requests : rq[r].pc = "end" /\ rq[r].user_msg # NULL /\ rq[r].answer = "apology"}

\* the reply rows to the user row i
Replies(i) == {j \in 1..Len(chat_messages) : chat_messages[j].reply_to = i}

ApologyPersisted ==
    \A r \in RaisedTurns :
        /\ chat_messages[rq[r].user_msg].routing_meta = "none"
        /\ Cardinality(Replies(rq[r].user_msg)) = 1
        /\ \A j \in Replies(rq[r].user_msg) :
              /\ chat_messages[j].role = "assistant"
              /\ chat_messages[j].content = "apology"
              /\ chat_messages[j].citations = <<>>
              /\ chat_messages[j].retrieval_meta = "none"
              /\ chat_messages[j].session = rq[r].session

\* C31: when rag_service.chat raises, the handler takes the apology as the
\* answer and an empty meta, writes no session row and no user row in that
\* step, and ends the turn with one assistant row for the user row, holding
\* the apology, no citations and no retrieval meta, the user row's
\* routing_meta still unset.
C31_RaisedChatEndsTurnWithApology ==
    /\ []ApologyPersisted
    /\ [][RaiseLeavesRowsAlone]_vars

\* a turn that ended with the apology in a session whose department an
\* earlier turn had set
C31_Witness ==
    \E r \in RaisedTurns :
        /\ chat_sessions[rq[r].session].answer_department # "none"
        /\ Replies(rq[r].user_msg) # {}

\* the chunk_index values of the rows of document d, in order of creation
ChunkIndexes(d) ==
    [k \in 1..Len(ChunksOf(chunk_rows, d)) |-> ChunksOf(chunk_rows, d)[k].chunk_index]

\* C32: in every state of upload, reindex-all and delete calls run one after
\* the other, every Chunk row belongs to a Document row, and the rows of a
\* document carry, in order of creation, the chunk_index values 0, 1, ...,
\* n-1: no gap and no duplicate.
C32_ChunkIndexDense ==
    /\ \A k \in 1..Len(chunk_rows) : chunk_rows[k].document \in documents
    /\ \A d \in documents :
          ChunkIndexes(d) = [k \in 1..Len(ChunksOf(chunk_rows, d)) |-> k - 1]

\* a reindex-all has returned after it wrote the rows of a document again,
\* two documents have rows, one of them three or more
C32_Witness ==
    /\ dop = "reindex"
    /\ dpc = "returned"
    /\ success > 0
    /\ \E d, e \in documents :
          /\ d # e
          /\ Len(ChunksOf(chunk_rows, d)) >= 3
          /\ Len(ChunksOf(chunk_rows, e)) >= 2

\* ---- C33

\* a step in which ingest_document, called by upload for `document`, raises
UploadIngestRaises == dpc = "up_ingest" /\ dpc' = "up_except"

\* a step in which the re-ingestion of NextDoc inside reindex_all_documents fails
ReindexIngestRaises == dpc = "rx_loop" /\ todo # {} /\ todo' # todo /\ failed' = failed + 1

\* the Chunk rows and num_page of document d are the same before and after the step
DocumentStateKept(d) ==
    /\ d \in DOMAIN num_page'
    /\ ChunksOf(chunk_rows', d) = ChunksOf(chunk_rows, d)
    /\ num_page'[d] = num_page[d]

\* C33: a call of ingest_document that fails, at whatever step, leaves the
\* Chunk rows of its Document and the Document's num_page as they were
\* before the call, in upload as in reindex_all_documents
C33_IngestAllOrNothing ==
    [][/\ UploadIngestRaises => DocumentStateKept(document)
       /\ ReindexIngestRaises => DocumentStateKept(NextDoc)]_vars

\* a failed re-ingestion inside reindex_all_documents keeps the rows and num_page
ReindexFailureKeepsChunks == [][ReindexIngestRaises => DocumentStateKept(NextDoc)]_vars

\* ---- C34

\* a step in which ingest_document is called, by upload or by reindex_all_documents
IngestStep ==
    \/ dpc = "up_ingest" /\ dpc' # "up_ingest"
    \/ dpc = "rx_loop" /\ todo # {} /\ todo' # todo

\* the last call of ingest_document extracted a scan-only PDF: it raised
\* the IngestionError of lines 65-69, which carries the extractor's
\* metadata, and counted no chunk
ScanPdfRaises ==
    ingestion.scan_pdf =>
        /\ ingestion.raised = "scan_pdf"
        /\ ingestion.extract_meta.type = "pdf"
        /\ ingestion.extract_meta.warnings \cap ScanWarnings # {}
        /\ ingestion.chunk_count = 0

\* a call of ingest_document that extracts a scan-only PDF creates no Chunk row
ScanPdfCreatesNoChunk == IngestStep /\ ingestion'.scan_pdf => chunk_rows' = chunk_rows

\* upload has raised after its ingest_document extracted a scan-only PDF
ScanUploadRaised ==
    /\ UploadRaised
    /\ ingestion.caller = "upload"
    /\ ingestion.document = document
    /\ ingestion.scan_pdf

\* C34 as stated: ingest_document of a scan-only PDF raises IngestionError
\* with the extractor metadata and creates no Chunk, and after the upload of
\* such a file has raised there is no Document, Chunk, blob or index entry
\* of that file.
C34_ScanPdfLeavesNothing ==
    /\ []ScanPdfRaises
    /\ [][ScanPdfCreatesNoChunk]_vars
    /\ [](ScanUploadRaised =>
             /\ document \notin documents
             /\ ChunksOf(chunk_rows, document) = <<>>
             /\ file_path \notin blobs
             /\ document \notin indexed_docs)

\* C34, amended: ingest_document of a scan-only PDF raises IngestionError
\* with the extractor metadata and creates no Chunk, and after the upload of
\* such a file has raised there is no Chunk and no index entry of that file,
\* no Document unless the compensating delete of the Document failed, and
\* no blob unless the compensating delete of the blob failed.
C34_ScanPdfRejected ==
    /\ []ScanPdfRaises
    /\ [][ScanPdfCreatesNoChunk]_vars
    /\ [](ScanUploadRaised =>
             /\ "document" \notin comp_failed => document \notin documents
             /\ ChunksOf(chunk_rows, document) = <<>>
             /\ "blob" \notin comp_failed => file_path \notin blobs
             /\ document \notin indexed_docs)

\* the upload of a scan-only PDF has raised beside an ingested document;
\* both compensating deletes worked
C34_Witness ==
    /\ ScanUploadRaised
    /\ ingestion.raised = "scan_pdf"
    /\ comp_failed = {}
    /\ file_path # 0
    /\ chunk_rows # <<>>
    /\ FailedUploadRow

\* ---- C35

\* the entries of an index under one chunk id
EntriesOf(idx, id) == SelectSeq(idx.ents, LAMBDA e : e[1] = id)

\* the entry index_chunks writes for a chunk: its id and the normalised
\* embedding of its content
EntryFor(id) == <<id, normalize_L2(embed_text(ChunkContent(id)))>>

\* an index holds at most one vector per chunk id
OneVectorPerId(idx) == \A id \in ChunkIds : Len(EntriesOf(idx, id)) <= 1

\* every in-memory index and every complete index file holds at most one
\* vector per chunk id
NoDuplicateIds ==
    /\ \A b \in Backends : OneVectorPerId(index[b])
    /\ Complete(fsFinal) => OneVectorPerId(fsFinal.b1)

\* the step of index_chunks that changes the index: each id of the call is
\* then present once, with the vector of its content, and the other ids
\* keep their entries
UpsertStep(t) ==
    pc[t] = "ic_mutate" /\ pc'[t] = "sv_open" =>
        \A id \in ChunkIds :
            EntriesOf(index'[BackendOf(t)], id) =
                IF id \in ids[t] THEN <<EntryFor(id)>>
                ELSE EntriesOf(index[BackendOf(t)], id)

\* the step of delete_chunks that changes the index: the other ids keep
\* their entries
RemoveStep(t) ==
    pc[t] = "dc_mutate" /\ pc'[t] = "sv_open" =>
        \A id \in ChunkIds \ ids[t] :
            EntriesOf(index'[BackendOf(t)], id) = EntriesOf(index[BackendOf(t)], id)

\* the step in which index_chunks or delete_chunks returns: the index of
\* the instance, which is also the index in the file, holds each id of an
\* index_chunks call once with the vector of its content, and none of the
\* ids of a delete_chunks call
ReturnStep(t) ==
    pc[t] = "sv_stat" /\ pc'[t] = "idle" =>
        /\ Complete(fsFinal) /\ fsFinal.b1 = index[BackendOf(t)]
        /\ index'[BackendOf(t)] = index[BackendOf(t)]
        /\ op[t] = "index" =>
               \A id \in ids[t] : EntriesOf(index[BackendOf(t)], id) = <<EntryFor(id)>>
        /\ op[t] = "delete" => IndexIds(index[BackendOf(t)]) \cap ids[t] = {}

\* C35: index_chunks upserts.  Whatever calls of index_chunks,
\* delete_chunks and rebuild_index an instance has run, its index holds at
\* most one vector per chunk id; when index_chunks(ids) returns, every id
\* of ids that resolved in the ChunkStore is present exactly once with the
\* vector of its content and the other ids have kept their vectors; when
\* delete_chunks(ids) returns, none of ids is present.
C35_IndexChunksUpserts ==
    /\ []NoDuplicateIds
    /\ [][\A t \in Threads : UpsertStep(t) /\ RemoveStep(t) /\ ReturnStep(t)]_vars

\* index_chunks of chunk 1 is about to return on an instance whose other
\* thread had indexed chunk 1 before, beside another indexed chunk
C35_Witness ==
    /\ pc["a1"] = "sv_stat"
    /\ op["a1"] = "index"
    /\ 1 \in ids["a1"]
    /\ 1 \in justIndexed["a2"]
    /\ ntotal(index["A"]) >= 2
    /\ EntriesOf(index["A"], 1) = <<EntryFor(1)>>

\* ---- C36

\* the call returns at once: the index of every instance, the index file
\* with its mtime, the tmp file and the mtimes the instances recorded are
\* as before, nothing was embedded and the thread is free again
NothingDone(t) ==
    /\ UNCHANGED <<index, fsFinal, fsTmp, indexMtime, batch, lock>>
    /\ pc'[t] = "idle"

\* index_chunks(S) with no id of S in the ChunkStore, S empty or not
IndexNothing(t) ==
    \A S \in SUBSET ChunkIds : index_chunks_start(t, S) /\ S \cap chunks = {} => NothingDone(t)

\* delete_chunks of an empty id list
DeleteNothing(t) == delete_chunks_start(t, {}) => NothingDone(t)

\* delete_chunks of ids none of which is in the index: remove_ids raises
\* nothing, the call goes on to save, and the index is as it was
DeleteAbsent(t) ==
    pc[t] = "dc_mutate" /\ pc'[t] # "dc_mutate" /\ ids[t] \cap IndexIds(index[BackendOf(t)]) = {} =>
        /\ pc'[t] = "sv_open"
        /\ index'[BackendOf(t)] = index[BackendOf(t)]

\* C36: index_chunks with an empty id list or with ids none of which
\* resolves in the ChunkStore, and delete_chunks with an empty id list,
\* leave the in-memory index, the index file and its mtime unchanged and
\* embed nothing; delete_chunks with ids none of which is in the index, an
\* empty index included, raises no error and leaves the indexed ids as
\* they were.
C36_NoOpInputsChangeNothing ==
    [][\A t \in Threads : IndexNothing(t) /\ DeleteNothing(t) /\ DeleteAbsent(t)]_vars

\* delete_chunks of chunk 2 has reloaded and holds the lock on an instance
\* whose index is empty, while chunk 1 of the index file's past is no
\* longer in the ChunkStore
C36_Witness ==
    /\ pc["a1"] = "dc_mutate"
    /\ ids["a1"] = {2}
    /\ ntotal(index["A"]) = 0
    /\ Complete(fsFinal)
    /\ 1 \notin chunks
    /\ pc["a2"] = "idle"

\* ---- C37

\* the first position from `from` on at which text holds token, 0 when none
RECURSIVE find(_, _, _)
find(text, token, from) ==
    IF from > Len(text) \/ from = 0 THEN 0
    ELSE IF text[from] = token THEN from
    ELSE find(text, token, from + 1)

\* the position at which the last label of the sequence is found when each
\* label is looked for after the one before it, 0 when one is missing
RECURSIVE found_in_order(_, _, _)
found_in_order(text, labels, from) ==
    IF labels = <<>> THEN from
    ELSE LET at == find(text, Head(labels), from)
         IN  IF at = 0 THEN 0 ELSE found_in_order(text, Tail(labels), at + 1)

BlockLabels ==
    <<"[system]", "[Conversation history]", "[Retrieved context]", "[Instruction]",
      "[Question]">>

\* _build_prompt has been called
PromptBuilt == prompt # NoPrompt

\* C37: the prompt _build_prompt returns holds the labels [system],
\* [Conversation history], [Retrieved context], [Instruction] and
\* [Question] in that order, and the Question block is last: the trimmed
\* prompt ends with the [Question] label, a line break and the user's
\* message.
C37_PromptEndsWithQuestion ==
    PromptBuilt =>
        /\ found_in_order(prompt.text, BlockLabels, 1) # 0
        /\ endswith(str_strip(prompt.text), prompt.user_message)
        /\ endswith(str_strip(prompt.text),
                    <<"[Question]", "\n">> \o Indent \o prompt.user_message)

\* a prompt was built for a message of two tokens after a history of two
\* rows that ends with an answer, with a context that reads like a label
C37_Witness ==
    /\ PromptBuilt
    /\ Len(prompt.user_message) = 2
    /\ Len(prompt.history) = 2
    /\ prompt.history[2].role = "assistant"
    /\ "[Question]" \in Range(prompt.context)

\* ---- C38

\* the instance is constructed and none of its threads is inside a call
IdleBackend(b) == live[b] /\ \A t \in ThreadsOf(b) : pc[t] = "idle"

\* C38: whenever an instance is idle and the mtime it last observed is the
\* mtime of the index file, its in-memory index is the index in the file.
C38_ObservedMtimeMeansLoaded ==
    \A b \in Backends :
        (IdleBackend(b) /\ fsFinal.ex /\ indexMtime[b] = fsFinal.mtime) =>
            index[b] = fsFinal.b1

\* ---- C39

\* the constructor of t's instance turns to writing an empty index
ConstructorCreates(t) == op[t] = "ctor" /\ pc[t] = "ct_exists" /\ pc'[t] = "sv_open"

\* the os.replace of a constructor's _save_index
ConstructorRenames(t) == op[t] = "ctor" /\ pc[t] = "sv_rename" /\ pc'[t] = "sv_stat"

\* the step replaces a complete index file that holds vectors by one that
\* holds none
NonEmptyReplacedByEmpty ==
    /\ Complete(fsFinal)
    /\ ntotal(fsFinal.b1) > 0
    /\ ntotal(fsFinal'.b1) = 0

\* C39: a constructor turns to writing an empty index only when it found
\* no index file, and the rename of a constructor never replaces a
\* committed index file that holds vectors by an empty index.
C39_ConstructorKeepsCommittedData ==
    [][\A t \in Threads :
          /\ ConstructorCreates(t) => ~fsFinal.ex
          /\ ConstructorRenames(t) => ~NonEmptyReplacedByEmpty]_vars

\* ---- C40

\* the step in which the turn of request r ends: rag_service.chat has
\* returned or raised and the finally clause of index has run
TurnEnds(r) == rq[r].pc = "ix_chat" /\ rq'[r].pc = "ix_assistant"

\* meta.routing.primary_department is a code other than "unknown" that
\* resolves to a Department row
ResolvedDepartment(m) ==
    /\ m.routing # "none"
    /\ strip(m.routing) \notin {"", "unknown"}
    /\ strip(m.routing) \in Departments

\* answer_department of session s changes in the step
DepartmentChanges(s) ==
    chat_sessions'[s].answer_department # chat_sessions[s].answer_department

\* C40: answer_department of a session changes only in the step that ends
\* a turn of that session whose meta.routing.primary_department is a code
\* other than "unknown" that resolves to a Department, and that step sets
\* it to that Department; the end of any other turn leaves it unchanged.
C40_AnswerDepartmentFollowsResolvedTurns ==
    [][\A s \in 1..Len(chat_sessions) :
          /\ DepartmentChanges(s) =>
                \E r \in Requests :
                    TurnEnds(r) /\ rq[r].session = s /\ ResolvedDepartment(rq'[r].meta)
          /\ \A r \in Requests :
                TurnEnds(r) /\ rq[r].session = s =>
                    chat_sessions'[s].answer_department =
                        IF ResolvedDepartment(rq'[r].meta) THEN strip(rq'[r].meta.routing)
                        ELSE chat_sessions[s].answer_department]_vars

====
